---- MODULE Spec2Model ----
(***************************************************************************)
(* The catalog transaction of src/catalog/src/transaction.rs: the          *)
(* Transaction object (one TableTransaction overlay per catalog table),    *)
(* its domain operations and its commit to the durable catalog.            *)
(*                                                                         *)
(* TableTransaction (crate mz_stash) and DurableCatalogState are used by   *)
(* transaction.rs but defined elsewhere; their operators below (TT_*,      *)
(* commit_transaction) follow the specification's section 4.1 and 6 and    *)
(* the way transaction.rs calls them.                                      *)
(***************************************************************************)
EXTENDS Integers, Sequences, FiniteSets, TLC

\* ------------------------------------------------------------------ bounds

\* Operations performed on one transaction before it is committed or dropped.
MaxOps == 2

\* Transactions opened one after another on the same durable catalog.
MaxTxns == 2

\* Stand-in for u64::MAX, the largest value of an id allocator's next_id.
IdMax == 3

\* ------------------------------------------------------------ Option, maps

None == <<>>
Some(v) == <<v>>
IsSome(o) == o /= <<>>
Unwrap(o) == o[1]

EmptyMap == <<>>
MapPut(m, k, v) == [x \in (DOMAIN m) \cup {k} |-> IF x = k THEN v ELSE m[x]]

\* ---------------------------------------------------------------- id types

User(n) == <<"User", n>>
System(n) == <<"System", n>>
is_user(id) == id[1] = "User"
is_system(id) == id[1] = "System"

DATABASE_ID_ALLOC_KEY == "database"
SCHEMA_ID_ALLOC_KEY == "schema"
USER_ROLE_ID_ALLOC_KEY == "user_role"
SYSTEM_CLUSTER_ID_ALLOC_KEY == "system_cluster"
SYSTEM_REPLICA_ID_ALLOC_KEY == "system_replica"
MZ_SYSTEM_ROLE_ID == System(1)

\* ----------------------------------- uniqueness predicates (Transaction::new)

databases_uniqueness_violation(a, b) == a.name = b.name
schemas_uniqueness_violation_global(a, b) == a.name = b.name

schemas_uniqueness_violation(a, b) == a.database_id = b.database_id /\ a.name = b.name
items_uniqueness_violation(a, b) == a.schema_id = b.schema_id /\ a.name = b.name
roles_uniqueness_violation(a, b) == a.name = b.name
clusters_uniqueness_violation_false(a, b) == FALSE

clusters_uniqueness_violation(a, b) == a.name = b.name
cluster_replicas_uniqueness_violation(a, b) == a.cluster_id = b.cluster_id /\ a.name = b.name
no_uniqueness_violation(a, b) == FALSE

\* ----------------------------------------------- TableTransaction<K, V>
\* A table is [initial |-> K -> V, pending |-> K -> Option<V>,
\* uniqueness_violation |-> the table's predicate]: the base snapshot, per
\* touched key the value the key shall have after commit, and the predicate
\* Transaction::new gave the table (held by the name of its table).

TT_new(initial, uniqueness_violation) ==
    [initial |-> initial, pending |-> EmptyMap, uniqueness_violation |-> uniqueness_violation]

\* (self.uniqueness_violation)(a, b)
TT_uniqueness_violation(t, a, b) ==
    CASE t.uniqueness_violation = "databases" -> databases_uniqueness_violation(a, b)
      [] t.uniqueness_violation = "schemas" -> schemas_uniqueness_violation(a, b)
      [] t.uniqueness_violation = "items" -> items_uniqueness_violation(a, b)
      [] t.uniqueness_violation = "roles" -> roles_uniqueness_violation(a, b)
      [] t.uniqueness_violation = "clusters" -> clusters_uniqueness_violation(a, b)
      [] t.uniqueness_violation = "cluster_replicas" ->
            cluster_replicas_uniqueness_violation(a, b)
      [] OTHER -> no_uniqueness_violation(a, b)

\* items(): the base overlaid by the pending entries.
TT_items(t) ==
    LET live == {k \in (DOMAIN t.initial) \cup (DOMAIN t.pending) :
                    IF k \in DOMAIN t.pending THEN IsSome(t.pending[k]) ELSE TRUE}
    IN  [k \in live |-> IF k \in DOMAIN t.pending THEN Unwrap(t.pending[k])
                                                  ELSE t.initial[k]]

\* get(key)
TT_get(t, k) ==
    LET items == TT_items(t)
    IN  IF k \in DOMAIN items THEN Some(items[k]) ELSE None

\* No two distinct live rows satisfy the table's uniqueness predicate.
TT_verify(t) ==
    LET items == TT_items(t)
    IN  \A i, j \in DOMAIN items :
            i /= j => ~TT_uniqueness_violation(t, items[i], items[j])

\* Variant of insert that also refuses a value conflicting with a row of the
\* base snapshot, live or not.
TT_insert_checks_base(t, k, v) ==
    LET items == TT_items(t)
        violation == \/ k \in DOMAIN items
                     \/ \E x \in DOMAIN items : TT_uniqueness_violation(t, items[x], v)
                     \/ \E x \in DOMAIN t.initial : TT_uniqueness_violation(t, t.initial[x], v)
    IN  IF violation
        THEN [ok |-> FALSE, table |-> t]
        ELSE [ok |-> TRUE, table |-> [t EXCEPT !.pending = MapPut(t.pending, k, Some(v))]]

\* insert(key, value): Err when the key is live or the value conflicts with
\* a live value; otherwise the key's pending entry becomes Some(value).
TT_insert(t, k, v) ==
    LET items == TT_items(t)
        violation == \/ k \in DOMAIN items
                     \/ \E x \in DOMAIN items : TT_uniqueness_violation(t, items[x], v)
    IN  IF violation
        THEN [ok |-> FALSE, table |-> t]
        ELSE [ok |-> TRUE, table |-> [t EXCEPT !.pending = MapPut(t.pending, k, Some(v))]]

\* update(f): every live (k, v) with f(k, v) = Some(new) is replaced by new
\* and counted; f is given as the function k |-> f(k, v) over the live keys.
\* transaction.rs applies `?` to the result (lines 449, 492, 743, ...): the
\* call is fallible, and the one error an in-memory overlay has is the
\* uniqueness violation that lines 1010 and 1023 name; the pending entries
\* are then left as they were.
TT_update(t, f) ==
    LET touched == {k \in DOMAIN f : IsSome(f[k])}
        next == [t EXCEPT !.pending =
                    [k \in (DOMAIN t.pending) \cup touched |->
                        IF k \in touched THEN f[k] ELSE t.pending[k]]]
    IN  IF TT_verify(next)
        THEN [ok |-> TRUE, n |-> Cardinality(touched), table |-> next]
        ELSE [ok |-> FALSE, n |-> 0, table |-> t]

\* set(key, Option<value>): unconditional upsert or delete; returns the
\* previous live value.
TT_set(t, k, v) ==
    [prev |-> TT_get(t, k), table |-> [t EXCEPT !.pending = MapPut(t.pending, k, v)]]

\* delete(f): removes every live row matching f and returns them; f is given
\* as the set of live keys it matches.
TT_delete(t, matched) ==
    LET items == TT_items(t)
        gone == matched \cap DOMAIN items
    IN  [deleted |-> {<<k, items[k]>> : k \in gone},
         table |-> [t EXCEPT !.pending =
                      [k \in (DOMAIN t.pending) \cup gone |->
                          IF k \in gone THEN None ELSE t.pending[k]]]]

\* A pending() that reports every touched key, changed or not.
TT_rows_uncoalesced(t, k) ==
    LET base == IF k \in DOMAIN t.initial THEN Some(t.initial[k]) ELSE None
        final == TT_get(t, k)
    IN  IF k \notin DOMAIN t.pending THEN <<>>
        ELSE (IF IsSome(base) THEN << <<k, Unwrap(base), -1>> >> ELSE <<>>)
             \o (IF IsSome(final) THEN << <<k, Unwrap(final), 1>> >> ELSE <<>>)

\* The rows pending() emits for one key: a function of the key's base state
\* and final state only.
TT_rows(t, k) ==
    LET base == IF k \in DOMAIN t.initial THEN Some(t.initial[k]) ELSE None
        final == TT_get(t, k)
    IN  IF base = final THEN <<>>
        ELSE (IF IsSome(base) THEN << <<k, Unwrap(base), -1>> >> ELSE <<>>)
             \o (IF IsSome(final) THEN << <<k, Unwrap(final), 1>> >> ELSE <<>>)

RECURSIVE TT_pending_of(_, _)
TT_pending_of(t, keys) ==
    IF keys = {} THEN <<>>
    ELSE LET k == CHOOSE x \in keys : TRUE
         IN  TT_rows(t, k) \o TT_pending_of(t, keys \ {k})

\* pending(): the coalesced net change set, one key after the other.
TT_pending(t) == TT_pending_of(t, (DOMAIN t.initial) \cup (DOMAIN t.pending))

\* ------------------------------------------------------------ input sets

Names == {"a", "b"}
RoleNames == Names \cup {"mz_system"}
DatabaseIds == {User(1), User(2)}
SchemaIds == {User(1), User(2)}
RoleIds == {User(1), User(2)}
ClusterIds == {User(1), User(2)}
ReplicaIds == {User(1), User(2)}
ItemIds == {User(1), User(2)}
Owners == {MZ_SYSTEM_ROLE_ID, User(1)}
LogNames == {"log1"}
Timelines == {"t1", "t2"}
AclModes == {None, Some("r"), Some("rw")}
SubComponents == {None, Some(1)}
Comments == {None, Some("x"), Some("y")}
SystemConfigNames == {"c1", "c2"}
SystemConfigValues == {"v1", "v2"}
ConfigKeys == {"k1", "k2"}
AllocNames == {DATABASE_ID_ALLOC_KEY, SCHEMA_ID_ALLOC_KEY, USER_ROLE_ID_ALLOC_KEY,
               SYSTEM_CLUSTER_ID_ALLOC_KEY, SYSTEM_REPLICA_ID_ALLOC_KEY}

\* ------------------------------------------------- keys and values (objects)

DatabaseKey(id) == [id |-> id]
DatabaseValue(name, owner_id, privileges) ==
    [name |-> name, owner_id |-> owner_id, privileges |-> privileges]
SchemaKey(id) == [id |-> id]
SchemaValue(database_id, name, owner_id, privileges) ==
    [database_id |-> database_id, name |-> name, owner_id |-> owner_id,
     privileges |-> privileges]
RoleKey(id) == [id |-> id]
RoleValue(name, attributes, membership, vars) ==
    [name |-> name, attributes |-> attributes, membership |-> membership, vars |-> vars]
ClusterKey(id) == [id |-> id]
ClusterValue(name, linked_object_id, owner_id, privileges, config) ==
    [name |-> name, linked_object_id |-> linked_object_id, owner_id |-> owner_id,
     privileges |-> privileges, config |-> config]
ClusterReplicaKey(id) == [id |-> id]
ClusterReplicaValue(cluster_id, name, config, owner_id) ==
    [cluster_id |-> cluster_id, name |-> name, config |-> config, owner_id |-> owner_id]
ClusterIntrospectionSourceIndexKey(cluster_id, name) ==
    [cluster_id |-> cluster_id, name |-> name]
ClusterIntrospectionSourceIndexValue(index_id) == [index_id |-> index_id]
ItemKey(gid) == [gid |-> gid]
ItemValue(schema_id, name, create_sql, owner_id, privileges) ==
    [schema_id |-> schema_id, name |-> name, create_sql |-> create_sql,
     owner_id |-> owner_id, privileges |-> privileges]
IdAllocKey(name) == [name |-> name]
IdAllocValue(next_id) == [next_id |-> next_id]
ConfigKey(key) == [key |-> key]
ConfigValue(value) == [value |-> value]
TimestampKey(id) == [id |-> id]
TimestampValue(ts) == [ts |-> ts]

\* Item::into_key_value, Database::into_key_value, ...: the struct's id is
\* the key, its other fields are the value.
into_key_value(obj) ==
    LET fields == (DOMAIN obj) \ {"id"}
    IN  <<[id |-> obj.id], [f \in fields |-> obj[f]]>>
Item_into_key_value(item) ==
    <<ItemKey(item.id),
      ItemValue(item.schema_id, item.name, item.create_sql, item.owner_id, item.privileges)>>

\* -------------------------------------------------------------- Snapshot

\* The durable catalog the first transaction is opened on: one row in every
\* name-scoped table, the five id allocators seeded, two system objects
\* mapped to the system ids 1 and 2.
BaseSnapshot ==
    [databases |-> (DatabaseKey(User(1)) :> DatabaseValue("a", MZ_SYSTEM_ROLE_ID, <<>>)),
     schemas |-> (SchemaKey(User(1)) :>
                    SchemaValue(Some(User(1)), "a", MZ_SYSTEM_ROLE_ID, <<>>)),
     roles |-> (RoleKey(User(1)) :> RoleValue("a", "attrs", "member", "vars"))
               @@ (RoleKey(System(1)) :> RoleValue("mz_system", "attrs", "member", "vars")),
     items |-> (ItemKey(User(1)) :>
                    ItemValue(User(1), "a", "sql1", MZ_SYSTEM_ROLE_ID, <<>>)),
     comments |-> ([object_id |-> "obj1", sub_component |-> None] :> [comment |-> "x"]),
     clusters |-> (ClusterKey(User(1)) :>
                    ClusterValue("a", None, MZ_SYSTEM_ROLE_ID, <<>>, "Unmanaged")),
     cluster_replicas |-> (ClusterReplicaKey(User(1)) :>
                    ClusterReplicaValue(User(1), "a", "cfg", MZ_SYSTEM_ROLE_ID)),
     introspection_sources |-> (ClusterIntrospectionSourceIndexKey(User(1), "log1") :>
                    ClusterIntrospectionSourceIndexValue(1)),
     id_allocator |-> (IdAllocKey(DATABASE_ID_ALLOC_KEY) :> IdAllocValue(IdMax - 1))
                   @@ (IdAllocKey(SCHEMA_ID_ALLOC_KEY) :> IdAllocValue(IdMax - 1))
                   @@ (IdAllocKey(USER_ROLE_ID_ALLOC_KEY) :> IdAllocValue(IdMax - 1))
                   @@ (IdAllocKey(SYSTEM_CLUSTER_ID_ALLOC_KEY) :> IdAllocValue(1))
                   @@ (IdAllocKey(SYSTEM_REPLICA_ID_ALLOC_KEY) :> IdAllocValue(1)),
     configs |-> (ConfigKey("k1") :> ConfigValue(1)),
     settings |-> EmptyMap,
     timestamps |-> (TimestampKey("t1") :> TimestampValue(1)),
     system_object_mappings |->
        ([object_type |-> "table", schema_name |-> "mz_catalog", object_name |-> "o1"] :>
            [id |-> 1, fingerprint |-> "f1"])
        @@ ([object_type |-> "table", schema_name |-> "mz_catalog", object_name |-> "o2"] :>
            [id |-> 2, fingerprint |-> "f1"]),
     system_configurations |-> ([name |-> "c1"] :> [value |-> "v1"]),
     default_privileges |-> EmptyMap,
     system_privileges |-> EmptyMap]

\* Transaction::new: one overlay per table of the snapshot, empty event logs.
Transaction_new(snapshot) ==
    [databases |-> TT_new(snapshot.databases, "databases"),
     schemas |-> TT_new(snapshot.schemas, "schemas"),
     items |-> TT_new(snapshot.items, "items"),
     comments |-> TT_new(snapshot.comments, "comments"),
     roles |-> TT_new(snapshot.roles, "roles"),
     clusters |-> TT_new(snapshot.clusters, "clusters"),
     cluster_replicas |-> TT_new(snapshot.cluster_replicas, "cluster_replicas"),
     introspection_sources |-> TT_new(snapshot.introspection_sources, "introspection_sources"),
     id_allocator |-> TT_new(snapshot.id_allocator, "id_allocator"),
     configs |-> TT_new(snapshot.configs, "configs"),
     settings |-> TT_new(snapshot.settings, "settings"),
     timestamps |-> TT_new(snapshot.timestamps, "timestamps"),
     system_gid_mapping |-> TT_new(snapshot.system_object_mappings, "system_gid_mapping"),
     system_configurations |-> TT_new(snapshot.system_configurations, "system_configurations"),
     default_privileges |-> TT_new(snapshot.default_privileges, "default_privileges"),
     system_privileges |-> TT_new(snapshot.system_privileges, "system_privileges"),
     audit_log_updates |-> <<>>,
     storage_usage_updates |-> <<>>]

\* ------------------------------------------------ results of an operation
\* What a method leaves behind: the transaction after it, Ok or the error it
\* returned ("panic": it did not return), the value or the error's payload,
\* and the ids get_and_increment_id handed out while it ran.

Res(t, status, ret, issued) == [txn |-> t, status |-> status, ret |-> ret, issued |-> issued]

\* ------------------------------------------------------ Transaction methods

get_and_increment_id_no_increment(t, key) ==
    LET items == TT_items(t.id_allocator)
    IN  IF IdAllocKey(key) \notin DOMAIN items
        THEN Res(t, "panic", None, <<>>)
        ELSE LET id == items[IdAllocKey(key)].next_id
             IN  IF id + 1 > IdMax
                 THEN Res(t, "IdExhaustion", None, <<>>)
                 ELSE Res(t, "Ok", Some(id), << <<key, id>> >>)


get_and_increment_id_returns_next(t, key) ==
    LET items == TT_items(t.id_allocator)
    IN  IF IdAllocKey(key) \notin DOMAIN items
        THEN Res(t, "panic", None, <<>>)
        ELSE LET id == items[IdAllocKey(key)].next_id
             IN  IF id + 1 > IdMax
                 THEN Res(t, "IdExhaustion", None, <<>>)
                 ELSE LET r == TT_set(t.id_allocator, IdAllocKey(key),
                                      Some(IdAllocValue(id + 1)))
                      IN  Res([t EXCEPT !.id_allocator = r.table], "Ok", Some(id + 1),
                              << <<key, id + 1>> >>)

get_and_increment_id_wrapping(t, key) ==
    LET items == TT_items(t.id_allocator)
    IN  IF IdAllocKey(key) \notin DOMAIN items
        THEN Res(t, "panic", None, <<>>)
        ELSE LET id == items[IdAllocKey(key)].next_id
                 r == TT_set(t.id_allocator, IdAllocKey(key),
                             Some(IdAllocValue((id + 1) % (IdMax + 1))))
             IN  Res([t EXCEPT !.id_allocator = r.table], "Ok", Some(id), << <<key, id>> >>)

\* An allocator with one counter for all names: every row advances.
get_and_increment_id_shared_counter(t, key) ==
    LET items == TT_items(t.id_allocator)
    IN  IF IdAllocKey(key) \notin DOMAIN items
        THEN Res(t, "panic", None, <<>>)
        ELSE LET id == items[IdAllocKey(key)].next_id
             IN  IF id + 1 > IdMax
                 THEN Res(t, "IdExhaustion", None, <<>>)
                 ELSE Res([t EXCEPT !.id_allocator.pending =
                              [k \in DOMAIN items |->
                                  Some(IdAllocValue(IF k = IdAllocKey(key) THEN id + 1
                                                    ELSE (items[k].next_id + 1) % (IdMax + 1)))]],
                          "Ok", Some(id), << <<key, id>> >>)

get_and_increment_id(t, key) ==
    LET items == TT_items(t.id_allocator)
    IN  IF IdAllocKey(key) \notin DOMAIN items
        THEN Res(t, "panic", None, <<>>)
        ELSE LET id == items[IdAllocKey(key)].next_id
             IN  IF id + 1 > IdMax
                 THEN Res(t, "IdExhaustion", None, <<>>)
                 ELSE LET r == TT_set(t.id_allocator, IdAllocKey(key),
                                      Some(IdAllocValue(id + 1)))
                      IN  Res([t EXCEPT !.id_allocator = r.table], "Ok", Some(id),
                              << <<key, id>> >>)

insert_database(t, id, database_name, owner_id, privileges) ==
    LET r == TT_insert(t.databases, DatabaseKey(id),
                       DatabaseValue(database_name, owner_id, privileges))
    IN  IF r.ok THEN Res([t EXCEPT !.databases = r.table], "Ok", None, <<>>)
                ELSE Res(t, "DatabaseAlreadyExists", Some(database_name), <<>>)

insert_user_database(t, database_name, owner_id, privileges) ==
    LET a == get_and_increment_id(t, DATABASE_ID_ALLOC_KEY)
    IN  IF a.status /= "Ok" THEN a
        ELSE LET id == User(Unwrap(a.ret))
                 b == insert_database(a.txn, id, database_name, owner_id, privileges)
             IN  IF b.status /= "Ok" THEN Res(b.txn, b.status, b.ret, a.issued)
                 ELSE Res(b.txn, "Ok", Some(id), a.issued)

insert_schema(t, schema_id, database_id, schema_name, owner_id, privileges) ==
    LET r == TT_insert(t.schemas, SchemaKey(schema_id),
                       SchemaValue(database_id, schema_name, owner_id, privileges))
    IN  IF r.ok THEN Res([t EXCEPT !.schemas = r.table], "Ok", None, <<>>)
                ELSE Res(t, "SchemaAlreadyExists", Some(schema_name), <<>>)

insert_user_schema(t, database_id, schema_name, owner_id, privileges) ==
    LET a == get_and_increment_id(t, SCHEMA_ID_ALLOC_KEY)
    IN  IF a.status /= "Ok" THEN a
        ELSE LET id == User(Unwrap(a.ret))
                 b == insert_schema(a.txn, id, Some(database_id), schema_name, owner_id,
                                    privileges)
             IN  IF b.status /= "Ok" THEN Res(b.txn, b.status, b.ret, a.issued)
                 ELSE Res(b.txn, "Ok", Some(id), a.issued)

\* An insert_role whose failure discards everything pending in the
\* transaction.
insert_role_rolls_back_all(t, id, name, attributes, membership, vars) ==
    LET r == TT_insert(t.roles, RoleKey(id), RoleValue(name, attributes, membership, vars))
    IN  IF r.ok THEN Res([t EXCEPT !.roles = r.table], "Ok", None, <<>>)
        ELSE Res([f \in DOMAIN t |->
                    IF f \in {"audit_log_updates", "storage_usage_updates"} THEN <<>>
                    ELSE [t[f] EXCEPT !.pending = EmptyMap]],
                 "RoleAlreadyExists", Some(name), <<>>)

insert_role(t, id, name, attributes, membership, vars) ==
    LET r == TT_insert(t.roles, RoleKey(id), RoleValue(name, attributes, membership, vars))
    IN  IF r.ok THEN Res([t EXCEPT !.roles = r.table], "Ok", None, <<>>)
                ELSE Res(t, "RoleAlreadyExists", Some(name), <<>>)

insert_user_role(t, name, attributes, membership, vars) ==
    LET a == get_and_increment_id(t, USER_ROLE_ID_ALLOC_KEY)
    IN  IF a.status /= "Ok" THEN a
        ELSE LET id == User(Unwrap(a.ret))
                 b == insert_role(a.txn, id, name, attributes, membership, vars)
             IN  IF b.status /= "Ok" THEN Res(b.txn, b.status, b.ret, a.issued)
                 ELSE Res(b.txn, "Ok", Some(id), a.issued)

\* The loop of insert_cluster over introspection_source_indexes, a sequence
\* of <<builtin log name, GlobalId>>: a non-system id panics, and so does an
\* insert the table refuses (.expect("no uniqueness violation")).
RECURSIVE insert_cluster_introspection_sources(_, _, _)
insert_cluster_introspection_sources(t, cluster_id, indexes) ==
    IF indexes = <<>> THEN Res(t, "Ok", None, <<>>)
    ELSE LET builtin == Head(indexes)[1]
             index_id == Head(indexes)[2]
         IN  IF ~is_system(index_id) THEN Res(t, "panic", None, <<>>)
             ELSE LET r == TT_insert(t.introspection_sources,
                               ClusterIntrospectionSourceIndexKey(cluster_id, builtin),
                               ClusterIntrospectionSourceIndexValue(index_id[2]))
                  IN  IF ~r.ok THEN Res(t, "panic", None, <<>>)
                      ELSE insert_cluster_introspection_sources(
                              [t EXCEPT !.introspection_sources = r.table],
                              cluster_id, Tail(indexes))

\* Variant of insert_cluster that writes the cluster row only.
insert_cluster_row_only(t, cluster_id, cluster_name, linked_object_id, introspection_source_indexes, owner_id, privileges, config) ==
    LET r == TT_insert(t.clusters, ClusterKey(cluster_id),
                       ClusterValue(cluster_name, linked_object_id, owner_id, privileges,
                                    config))
    IN  IF ~r.ok THEN Res(t, "ClusterAlreadyExists", Some(cluster_name), <<>>)
        ELSE Res([t EXCEPT !.clusters = r.table], "Ok", None, <<>>)

insert_cluster(t, cluster_id, cluster_name, linked_object_id, introspection_source_indexes, owner_id, privileges, config) ==
    LET r == TT_insert(t.clusters, ClusterKey(cluster_id),
                       ClusterValue(cluster_name, linked_object_id, owner_id, privileges,
                                    config))
    IN  IF ~r.ok THEN Res(t, "ClusterAlreadyExists", Some(cluster_name), <<>>)
        ELSE insert_cluster_introspection_sources([t EXCEPT !.clusters = r.table],
                                                  cluster_id, introspection_source_indexes)

insert_user_cluster(t, cluster_id, cluster_name, linked_object_id, introspection_source_indexes, owner_id, privileges, config) ==
    insert_cluster(t, cluster_id, cluster_name, linked_object_id,
                   introspection_source_indexes, owner_id, privileges, config)

insert_system_cluster(t, cluster_id, cluster_name, introspection_source_indexes, privileges, config) ==
    insert_cluster(t, cluster_id, cluster_name, None, introspection_source_indexes,
                   MZ_SYSTEM_ROLE_ID, privileges, config)

\* Variant of rename_cluster that writes the new name without the table's
\* uniqueness check.
rename_cluster_unchecked(t, cluster_id, cluster_name, cluster_to_name) ==
    LET key == ClusterKey(cluster_id)
        items == TT_items(t.clusters)
    IN  IF key \notin DOMAIN items
        THEN Res(t, "UnknownCluster", Some(cluster_name), <<>>)
        ELSE Res([t EXCEPT !.clusters =
                     TT_set(t.clusters, key,
                            Some([items[key] EXCEPT !.name = cluster_to_name])).table],
                 "Ok", None, <<>>)

rename_cluster(t, cluster_id, cluster_name, cluster_to_name) ==
    LET key == ClusterKey(cluster_id)
        items == TT_items(t.clusters)
        f == [k \in DOMAIN items |->
                IF k = key THEN Some([items[k] EXCEPT !.name = cluster_to_name]) ELSE None]
        r == TT_update(t.clusters, f)
    IN  IF ~r.ok THEN Res(t, "UniquenessViolation", None, <<>>)
        ELSE IF r.n = 0 THEN Res(t, "UnknownCluster", Some(cluster_name), <<>>)
        ELSE IF r.n = 1 THEN Res([t EXCEPT !.clusters = r.table], "Ok", None, <<>>)
        ELSE Res([t EXCEPT !.clusters = r.table], "panic", None, <<>>)

rename_cluster_replica(t, replica_id, replica_name, replica_to_name) ==
    LET key == ClusterReplicaKey(replica_id)
        items == TT_items(t.cluster_replicas)
        f == [k \in DOMAIN items |->
                IF k = key THEN Some([items[k] EXCEPT !.name = replica_to_name]) ELSE None]
        r == TT_update(t.cluster_replicas, f)
    IN  IF ~r.ok THEN Res(t, "UniquenessViolation", None, <<>>)
        ELSE IF r.n = 0 THEN Res(t, "UnknownClusterReplica", Some(replica_name), <<>>)
        ELSE IF r.n = 1 THEN Res([t EXCEPT !.cluster_replicas = r.table], "Ok", None, <<>>)
        ELSE Res([t EXCEPT !.cluster_replicas = r.table], "panic", None, <<>>)

insert_cluster_replica(t, cluster_id, replica_id, replica_name, config, owner_id) ==
    LET r == TT_insert(t.cluster_replicas, ClusterReplicaKey(replica_id),
                       ClusterReplicaValue(cluster_id, replica_name, config, owner_id))
    IN  IF r.ok THEN Res([t EXCEPT !.cluster_replicas = r.table], "Ok", None, <<>>)
        ELSE IF ~IsSome(TT_get(t.clusters, ClusterKey(cluster_id)))
        THEN Res(t, "panic", None, <<>>)
        ELSE Res(t, "DuplicateReplica",
                 Some(<<replica_name, Unwrap(TT_get(t.clusters, ClusterKey(cluster_id))).name>>),
                 <<>>)

\* Variant of the inner loop of update_introspection_source_index_gids that
\* returns the typed error for a non-system id.
update_introspection_source_index_gids_of_typed_error(t, cluster_id, updates) ==
    IF updates = <<>> THEN Res(t, "Ok", None, <<>>)
    ELSE Res(t, "FailedBuiltinSchemaMigration", Some(Head(updates)[2]), <<>>)

\* The inner loop of update_introspection_source_index_gids over the updates
\* of one cluster, a sequence of <<name, GlobalId>>: the row is set before
\* the previous value is looked at.
RECURSIVE update_introspection_source_index_gids_of(_, _, _)
update_introspection_source_index_gids_of(t, cluster_id, updates) ==
    IF updates = <<>> THEN Res(t, "Ok", None, <<>>)
    ELSE LET name == Head(updates)[1]
             id == Head(updates)[2]
         IN  IF ~is_system(id) THEN Res(t, "panic", None, <<>>)
             ELSE LET r == TT_set(t.introspection_sources,
                               ClusterIntrospectionSourceIndexKey(cluster_id, name),
                               Some(ClusterIntrospectionSourceIndexValue(id[2])))
                      t2 == [t EXCEPT !.introspection_sources = r.table]
                  IN  IF ~IsSome(r.prev)
                      THEN Res(t2, "FailedBuiltinSchemaMigration", Some(id), <<>>)
                      ELSE update_introspection_source_index_gids_of(t2, cluster_id,
                                                                     Tail(updates))

\* mappings is a sequence of <<cluster_id, updates>>.
RECURSIVE update_introspection_source_index_gids(_, _)
update_introspection_source_index_gids(t, mappings) ==
    IF mappings = <<>> THEN Res(t, "Ok", None, <<>>)
    ELSE LET r == update_introspection_source_index_gids_of(t, Head(mappings)[1],
                                                            Head(mappings)[2])
         IN  IF r.status /= "Ok" THEN r
             ELSE update_introspection_source_index_gids(r.txn, Tail(mappings))

\* Variant of insert_item that reports Ok when the table refuses the row.
insert_item_swallows_error(t, id, schema_id, item_name, create_sql, owner_id, privileges) ==
    LET r == TT_insert(t.items, ItemKey(id),
                       ItemValue(schema_id, item_name, create_sql, owner_id, privileges))
    IN  IF r.ok THEN Res([t EXCEPT !.items = r.table], "Ok", None, <<>>)
                ELSE Res(t, "Ok", None, <<>>)

insert_item(t, id, schema_id, item_name, create_sql, owner_id, privileges) ==
    LET r == TT_insert(t.items, ItemKey(id),
                       ItemValue(schema_id, item_name, create_sql, owner_id, privileges))
    IN  IF r.ok THEN Res([t EXCEPT !.items = r.table], "Ok", None, <<>>)
                ELSE Res(t, "ItemAlreadyExists", Some(<<id, item_name>>), <<>>)

insert_timestamp(t, timeline, ts) ==
    LET r == TT_insert(t.timestamps, TimestampKey(timeline), TimestampValue(ts))
    IN  IF r.ok THEN Res([t EXCEPT !.timestamps = r.table], "Ok", None, <<>>)
                ELSE Res(t, "TimelineAlreadyExists", Some(timeline), <<>>)

insert_id_allocator(t, name, next_id) ==
    LET r == TT_insert(t.id_allocator, IdAllocKey(name), IdAllocValue(next_id))
    IN  IF r.ok THEN Res([t EXCEPT !.id_allocator = r.table], "Ok", None, <<>>)
                ELSE Res(t, "IdAllocatorAlreadyExists", Some(name), <<>>)

insert_config(t, key, value) ==
    LET r == TT_insert(t.configs, ConfigKey(key), ConfigValue(value))
    IN  IF r.ok THEN Res([t EXCEPT !.configs = r.table], "Ok", None, <<>>)
                ELSE Res(t, "ConfigAlreadyExists", Some(key), <<>>)

\* Variant of remove_database that also deletes the schemas of the database.
remove_database_cascades(t, id) ==
    LET r == TT_set(t.databases, DatabaseKey(id), None)
        schemas == TT_items(t.schemas)
        rs == TT_delete(t.schemas, {k \in DOMAIN schemas : schemas[k].database_id = Some(id)})
        t2 == [t EXCEPT !.databases = r.table, !.schemas = rs.table]
    IN  IF IsSome(r.prev) THEN Res(t2, "Ok", None, <<>>)
                          ELSE Res(t2, "UnknownDatabase", Some(id), <<>>)

remove_database(t, id) ==
    LET r == TT_set(t.databases, DatabaseKey(id), None)
        t2 == [t EXCEPT !.databases = r.table]
    IN  IF IsSome(r.prev) THEN Res(t2, "Ok", None, <<>>)
                          ELSE Res(t2, "UnknownDatabase", Some(id), <<>>)

remove_schema(t, database_id, schema_id) ==
    LET r == TT_set(t.schemas, SchemaKey(schema_id), None)
        t2 == [t EXCEPT !.schemas = r.table]
    IN  IF IsSome(r.prev) THEN Res(t2, "Ok", None, <<>>)
                          ELSE Res(t2, "UnknownSchema", Some(<<database_id, schema_id>>), <<>>)

\* Variant of remove_role without the assertion on user role ids.
remove_role_any_role(t, name) ==
    LET items == TT_items(t.roles)
        r == TT_delete(t.roles, {k \in DOMAIN items : items[k].name = name})
        t2 == [t EXCEPT !.roles = r.table]
        n == Cardinality(r.deleted)
    IN  IF ~(n <= 1) THEN Res(t2, "panic", None, <<>>)
        ELSE IF n = 1 THEN Res(t2, "Ok", None, <<>>)
        ELSE Res(t2, "UnknownRole", Some(name), <<>>)

remove_role(t, name) ==
    LET items == TT_items(t.roles)
        r == TT_delete(t.roles, {k \in DOMAIN items : items[k].name = name})
        t2 == [t EXCEPT !.roles = r.table]
        n == Cardinality(r.deleted)
    IN  IF ~(\A kv \in r.deleted : is_user(kv[1].id)) THEN Res(t2, "panic", None, <<>>)
        ELSE IF ~(n <= 1) THEN Res(t2, "panic", None, <<>>)
        ELSE IF n = 1 THEN Res(t2, "Ok", None, <<>>)
        ELSE Res(t2, "UnknownRole", Some(name), <<>>)

\* A remove_cluster that deletes the cluster row only.
remove_cluster_no_cascade(t, id) ==
    LET clusters == TT_items(t.clusters)
        r == TT_delete(t.clusters, {k \in DOMAIN clusters : k.id = id})
    IN  IF r.deleted = {} THEN Res([t EXCEPT !.clusters = r.table], "UnknownCluster", Some(id), <<>>)
        ELSE Res([t EXCEPT !.clusters = r.table], "Ok", None, <<>>)

\* Variant of remove_cluster that cascades whether or not a cluster row was
\* found.
remove_cluster_cascades_always(t, id) ==
    LET clusters == TT_items(t.clusters)
        replicas == TT_items(t.cluster_replicas)
        sources == TT_items(t.introspection_sources)
        r == TT_delete(t.clusters, {k \in DOMAIN clusters : k.id = id})
        rr == TT_delete(t.cluster_replicas, {k \in DOMAIN replicas : replicas[k].cluster_id = id})
        rs == TT_delete(t.introspection_sources, {k \in DOMAIN sources : k.cluster_id = id})
    IN  Res([t EXCEPT !.clusters = r.table, !.cluster_replicas = rr.table,
                      !.introspection_sources = rs.table],
            IF r.deleted = {} THEN "UnknownCluster" ELSE "Ok",
            IF r.deleted = {} THEN Some(id) ELSE None, <<>>)

remove_cluster(t, id) ==
    LET clusters == TT_items(t.clusters)
        r == TT_delete(t.clusters, {k \in DOMAIN clusters : k.id = id})
    IN  IF r.deleted = {} THEN Res([t EXCEPT !.clusters = r.table], "UnknownCluster", Some(id), <<>>)
        ELSE IF Cardinality(r.deleted) /= 1 THEN Res([t EXCEPT !.clusters = r.table], "panic", None, <<>>)
        ELSE LET replicas == TT_items(t.cluster_replicas)
                 sources == TT_items(t.introspection_sources)
                 rr == TT_delete(t.cluster_replicas,
                                 {k \in DOMAIN replicas : replicas[k].cluster_id = id})
                 rs == TT_delete(t.introspection_sources,
                                 {k \in DOMAIN sources : k.cluster_id = id})
             IN  Res([t EXCEPT !.clusters = r.table, !.cluster_replicas = rr.table,
                               !.introspection_sources = rs.table], "Ok", None, <<>>)

remove_cluster_replica(t, id) ==
    LET items == TT_items(t.cluster_replicas)
        r == TT_delete(t.cluster_replicas, {k \in DOMAIN items : k.id = id})
        t2 == [t EXCEPT !.cluster_replicas = r.table]
    IN  IF Cardinality(r.deleted) = 1 THEN Res(t2, "Ok", None, <<>>)
        ELSE IF r.deleted /= {} THEN Res(t2, "panic", None, <<>>)
        ELSE Res(t2, "UnknownClusterReplica", Some(id), <<>>)


remove_item_no_delete(t, id) ==
    LET prev == TT_get(t.items, ItemKey(id))
    IN  IF IsSome(prev) THEN Res(t, "Ok", None, <<>>)
                        ELSE Res(t, "UnknownItem", Some({id}), <<>>)

remove_item(t, id) ==
    LET r == TT_set(t.items, ItemKey(id), None)
        t2 == [t EXCEPT !.items = r.table]
    IN  IF IsSome(r.prev) THEN Res(t2, "Ok", None, <<>>)
                          ELSE Res(t2, "UnknownItem", Some({id}), <<>>)

\* Variant of remove_items that deletes nothing when some id is not live.
remove_items_all_or_nothing(t, ids) ==
    LET items == TT_items(t.items)
        r == TT_delete(t.items, {k \in DOMAIN items : k.gid \in ids})
        t2 == [t EXCEPT !.items = r.table]
        item_gids == {k.gid : k \in DOMAIN items}
    IN  IF Cardinality(r.deleted) = Cardinality(ids) THEN Res(t2, "Ok", None, <<>>)
        ELSE Res(t, "UnknownItem", Some(ids \ item_gids), <<>>)

\* The error names ids \ (the item ids live after the delete).
remove_items(t, ids) ==
    LET items == TT_items(t.items)
        r == TT_delete(t.items, {k \in DOMAIN items : k.gid \in ids})
        t2 == [t EXCEPT !.items = r.table]
        item_gids == {k.gid : k \in DOMAIN TT_items(r.table)}
    IN  IF Cardinality(r.deleted) = Cardinality(ids) THEN Res(t2, "Ok", None, <<>>)
        ELSE Res(t2, "UnknownItem", Some(ids \ item_gids), <<>>)


update_item_keeps_old_value(t, id, item) ==
    LET items == TT_items(t.items)
        matched == {k \in DOMAIN items : k.gid = id}
        f == [k \in DOMAIN items |-> IF k.gid = id THEN Some(items[k]) ELSE None]
    IN  IF \E k \in matched : item.schema_id /= items[k].schema_id
        THEN Res(t, "panic", None, <<>>)
        ELSE LET r == TT_update(t.items, f)
             IN  IF ~r.ok THEN Res(t, "UniquenessViolation", None, <<>>)
                 ELSE IF ~(r.n <= 1) THEN Res([t EXCEPT !.items = r.table], "panic", None, <<>>)
                 ELSE IF r.n = 1 THEN Res([t EXCEPT !.items = r.table], "Ok", None, <<>>)
                 ELSE Res([t EXCEPT !.items = r.table], "UnknownItem", Some({id}), <<>>)

\* The closure asserts item.schema_id = v.schema_id on the row it matches.
\* Variant of update_item that writes the new value without the table's
\* uniqueness check.
update_item_unchecked(t, id, item) ==
    LET items == TT_items(t.items)
        key == ItemKey(id)
    IN  IF key \notin DOMAIN items THEN Res(t, "UnknownItem", Some({id}), <<>>)
        ELSE IF item.schema_id /= items[key].schema_id THEN Res(t, "panic", None, <<>>)
        ELSE Res([t EXCEPT !.items = TT_set(t.items, key, Some(Item_into_key_value(item)[2])).table],
                 "Ok", None, <<>>)

update_item(t, id, item) ==
    LET items == TT_items(t.items)
        matched == {k \in DOMAIN items : k.gid = id}
        f == [k \in DOMAIN items |->
                IF k.gid = id THEN Some(Item_into_key_value(item)[2]) ELSE None]
    IN  IF \E k \in matched : item.schema_id /= items[k].schema_id
        THEN Res(t, "panic", None, <<>>)
        ELSE LET r == TT_update(t.items, f)
             IN  IF ~r.ok THEN Res(t, "UniquenessViolation", None, <<>>)
                 ELSE IF ~(r.n <= 1) THEN Res([t EXCEPT !.items = r.table], "panic", None, <<>>)
                 ELSE IF r.n = 1 THEN Res([t EXCEPT !.items = r.table], "Ok", None, <<>>)
                 ELSE Res([t EXCEPT !.items = r.table], "UnknownItem", Some({id}), <<>>)

\* Variant of update_items without the schema_id assertion.
update_items_no_assert(t, items) ==
    LET live == TT_items(t.items)
        f == [k \in DOMAIN live |->
                IF k.gid \in DOMAIN items THEN Some(Item_into_key_value(items[k.gid])[2])
                                          ELSE None]
        r == TT_update(t.items, f)
        t2 == [t EXCEPT !.items = r.table]
        item_ids == {k.gid : k \in DOMAIN TT_items(r.table)}
    IN  IF ~r.ok THEN Res(t, "UniquenessViolation", None, <<>>)
        ELSE IF r.n = Cardinality(DOMAIN items) THEN Res(t2, "Ok", None, <<>>)
        ELSE Res(t2, "UnknownItem", Some((DOMAIN items) \ item_ids), <<>>)

\* Variant of update_items that undoes the matched rows on a partial miss.
update_items_rolls_back(t, items) ==
    LET live == TT_items(t.items)
        matched == {k \in DOMAIN live : k.gid \in DOMAIN items}
        f == [k \in DOMAIN live |->
                IF k.gid \in DOMAIN items THEN Some(Item_into_key_value(items[k.gid])[2])
                                          ELSE None]
    IN  IF \E k \in matched : items[k.gid].schema_id /= live[k].schema_id
        THEN Res(t, "panic", None, <<>>)
        ELSE LET r == TT_update(t.items, f)
                 t2 == [t EXCEPT !.items = r.table]
                 item_ids == {k.gid : k \in DOMAIN live}
             IN  IF ~r.ok THEN Res(t, "UniquenessViolation", None, <<>>)
                 ELSE IF r.n = Cardinality(DOMAIN items) THEN Res(t2, "Ok", None, <<>>)
                 ELSE Res(t, "UnknownItem", Some((DOMAIN items) \ item_ids), <<>>)

\* items is a map GlobalId -> Item; the error names its keys that are not
\* live item ids.
update_items(t, items) ==
    LET live == TT_items(t.items)
        matched == {k \in DOMAIN live : k.gid \in DOMAIN items}
        f == [k \in DOMAIN live |->
                IF k.gid \in DOMAIN items THEN Some(Item_into_key_value(items[k.gid])[2])
                                          ELSE None]
    IN  IF \E k \in matched : items[k.gid].schema_id /= live[k].schema_id
        THEN Res(t, "panic", None, <<>>)
        ELSE LET r == TT_update(t.items, f)
                 t2 == [t EXCEPT !.items = r.table]
                 item_ids == {k.gid : k \in DOMAIN TT_items(r.table)}
             IN  IF ~r.ok THEN Res(t, "UniquenessViolation", None, <<>>)
                 ELSE IF r.n = Cardinality(DOMAIN items) THEN Res(t2, "Ok", None, <<>>)
                 ELSE Res(t2, "UnknownItem", Some((DOMAIN items) \ item_ids), <<>>)

\* The not-found error of update_role is UnknownItem (line 802).
update_role(t, id, role) ==
    LET items == TT_items(t.roles)
        f == [k \in DOMAIN items |-> IF k.id = id THEN Some(into_key_value(role)[2]) ELSE None]
        r == TT_update(t.roles, f)
        t2 == [t EXCEPT !.roles = r.table]
    IN  IF ~r.ok THEN Res(t, "UniquenessViolation", None, <<>>)
        ELSE IF ~(r.n <= 1) THEN Res(t2, "panic", None, <<>>)
        ELSE IF r.n = 1 THEN Res(t2, "Ok", None, <<>>)
        ELSE Res(t2, "UnknownItem", Some({id}), <<>>)

update_cluster(t, id, cluster) ==
    LET items == TT_items(t.clusters)
        f == [k \in DOMAIN items |->
                IF k.id = id THEN Some(into_key_value(cluster)[2]) ELSE None]
        r == TT_update(t.clusters, f)
        t2 == [t EXCEPT !.clusters = r.table]
    IN  IF ~r.ok THEN Res(t, "UniquenessViolation", None, <<>>)
        ELSE IF ~(r.n <= 1) THEN Res(t2, "panic", None, <<>>)
        ELSE IF r.n = 1 THEN Res(t2, "Ok", None, <<>>)
        ELSE Res(t2, "UnknownCluster", Some(id), <<>>)

update_cluster_replica(t, replica_id, replica) ==
    LET items == TT_items(t.cluster_replicas)
        f == [k \in DOMAIN items |->
                IF k.id = replica_id THEN Some(into_key_value(replica)[2]) ELSE None]
        r == TT_update(t.cluster_replicas, f)
        t2 == [t EXCEPT !.cluster_replicas = r.table]
    IN  IF ~r.ok THEN Res(t, "UniquenessViolation", None, <<>>)
        ELSE IF ~(r.n <= 1) THEN Res(t2, "panic", None, <<>>)
        ELSE IF r.n = 1 THEN Res(t2, "Ok", None, <<>>)
        ELSE Res(t2, "UnknownClusterReplica", Some(replica_id), <<>>)

update_database(t, id, database) ==
    LET items == TT_items(t.databases)
        f == [k \in DOMAIN items |->
                IF id = k.id THEN Some(into_key_value(database)[2]) ELSE None]
        r == TT_update(t.databases, f)
        t2 == [t EXCEPT !.databases = r.table]
    IN  IF ~r.ok THEN Res(t, "UniquenessViolation", None, <<>>)
        ELSE IF ~(r.n <= 1) THEN Res(t2, "panic", None, <<>>)
        ELSE IF r.n = 1 THEN Res(t2, "Ok", None, <<>>)
        ELSE Res(t2, "UnknownDatabase", Some(id), <<>>)

update_schema(t, schema_id, schema) ==
    LET items == TT_items(t.schemas)
        f == [k \in DOMAIN items |->
                IF schema_id = k.id THEN Some(into_key_value(schema)[2]) ELSE None]
        r == TT_update(t.schemas, f)
        t2 == [t EXCEPT !.schemas = r.table]
    IN  IF ~r.ok THEN Res(t, "UniquenessViolation", None, <<>>)
        ELSE IF ~(r.n <= 1) THEN Res(t2, "panic", None, <<>>)
        ELSE IF r.n = 1 THEN Res(t2, "Ok", None, <<>>)
        ELSE Res(t2, "UnknownSchema", Some(schema_id), <<>>)

\* The replacement maps of update_system_object_mappings: old GlobalId ->
\* new SystemObjectMapping (the object's name, its new id and fingerprint).
SystemObjectMappings ==
    UNION {[D -> {[object_type |-> "table", schema_name |-> "mz_catalog", object_name |-> "o1",
                   id |-> id, fingerprint |-> "f2"] : id \in 1..2}] :
              D \in SUBSET {System(1), System(2), User(1)}}

\* Variant of update_system_object_mappings that never reports a count
\* mismatch.
update_system_object_mappings_no_count(t, mappings) ==
    LET items == TT_items(t.system_gid_mapping)
        f == [k \in DOMAIN items |->
                IF System(items[k].id) \in DOMAIN mappings
                THEN Some([id |-> mappings[System(items[k].id)].id,
                           fingerprint |-> mappings[System(items[k].id)].fingerprint])
                ELSE None]
        r == TT_update(t.system_gid_mapping, f)
    IN  Res([t EXCEPT !.system_gid_mapping = r.table], "Ok", None, <<>>)

\* The closure matches on the id stored in the row's value; the value of a
\* mapping (into_key_value) is its id and fingerprint, and the row stays
\* under its key.
update_system_object_mappings(t, mappings) ==
    LET items == TT_items(t.system_gid_mapping)
        f == [k \in DOMAIN items |->
                IF System(items[k].id) \in DOMAIN mappings
                THEN Some([id |-> mappings[System(items[k].id)].id,
                           fingerprint |-> mappings[System(items[k].id)].fingerprint])
                ELSE None]
        r == TT_update(t.system_gid_mapping, f)
        t2 == [t EXCEPT !.system_gid_mapping = r.table]
    IN  IF ~r.ok THEN Res(t, "UniquenessViolation", None, <<>>)
        ELSE IF r.n /= Cardinality(DOMAIN mappings)
        THEN Res(t2, "FailedBuiltinSchemaMigration", Some(DOMAIN mappings), <<>>)
        ELSE Res(t2, "Ok", None, <<>>)

\* ----------------------------------------------------------------- setters

set_default_privilege(t, role_id, database_id, schema_id, object_type, grantee, privileges) ==
    LET key == [role_id |-> role_id, database_id |-> database_id, schema_id |-> schema_id,
                object_type |-> object_type, grantee |-> grantee]
        value == IF IsSome(privileges) THEN Some([privileges |-> Unwrap(privileges)]) ELSE None
    IN  Res([t EXCEPT !.default_privileges = TT_set(t.default_privileges, key, value).table],
            "Ok", None, <<>>)

set_system_privilege(t, grantee, grantor, acl_mode) ==
    LET key == [grantee |-> grantee, grantor |-> grantor]
        value == IF IsSome(acl_mode) THEN Some([acl_mode |-> Unwrap(acl_mode)]) ELSE None
    IN  Res([t EXCEPT !.system_privileges = TT_set(t.system_privileges, key, value).table],
            "Ok", None, <<>>)

update_comment(t, object_id, sub_component, comment) ==
    LET key == [object_id |-> object_id, sub_component |-> sub_component]
        value == IF IsSome(comment) THEN Some([comment |-> Unwrap(comment)]) ELSE None
    IN  Res([t EXCEPT !.comments = TT_set(t.comments, key, value).table], "Ok", None, <<>>)

\* Variant of upsert_system_config that keeps the value a live name has.
upsert_system_config_keeps_live(t, name, value) ==
    LET key == [name |-> name]
    IN  IF IsSome(TT_get(t.system_configurations, key)) THEN Res(t, "Ok", None, <<>>)
        ELSE Res([t EXCEPT !.system_configurations =
                     TT_set(t.system_configurations, key, Some([value |-> value])).table],
                 "Ok", None, <<>>)

upsert_system_config(t, name, value) ==
    LET key == [name |-> name]
    IN  Res([t EXCEPT !.system_configurations =
                TT_set(t.system_configurations, key, Some([value |-> value])).table],
            "Ok", None, <<>>)

remove_system_config(t, name) ==
    Res([t EXCEPT !.system_configurations =
            TT_set(t.system_configurations, [name |-> name], None).table],
        "Ok", None, <<>>)

clear_system_configs(t) ==
    Res([t EXCEPT !.system_configurations =
            TT_delete(t.system_configurations, DOMAIN TT_items(t.system_configurations)).table],
        "Ok", None, <<>>)

\* ------------------------------------------------------------------ commit


\* The event logs: a pushed row is (key, (), +1).
AuditLogKey(event) == [event |-> event]
StorageUsageKey(metric) == [metric |-> metric]
AuditEvents == {"e1", "e2"}
StorageUsageMetrics == {"m1"}

\* Variant of insert_audit_log_event that skips an event already pushed.
insert_audit_log_event_dedup(t, event) ==
    IF \E i \in 1..Len(t.audit_log_updates) : t.audit_log_updates[i][1] = AuditLogKey(event)
    THEN Res(t, "Ok", None, <<>>)
    ELSE Res([t EXCEPT !.audit_log_updates = Append(@, <<AuditLogKey(event), <<>>, 1>>)],
             "Ok", None, <<>>)

insert_audit_log_event(t, event) ==
    Res([t EXCEPT !.audit_log_updates = Append(@, <<AuditLogKey(event), <<>>, 1>>)],
        "Ok", None, <<>>)

insert_storage_usage_event(t, metric) ==
    Res([t EXCEPT !.storage_usage_updates = Append(@, <<StorageUsageKey(metric), <<>>, 1>>)],
        "Ok", None, <<>>)

\* ------------------------------------------------------ builtin migrations

\* crate::builtin: the builtin clusters and their replicas, by name.
BUILTIN_CLUSTERS ==
    << [name |-> "mz_system", privileges |-> <<>>],
       [name |-> "mz_introspection", privileges |-> <<>>] >>
BUILTIN_CLUSTER_REPLICAS ==
    << [name |-> "r1", cluster_name |-> "mz_system"],
       [name |-> "r1", cluster_name |-> "mz_introspection"] >>

default_logging_config == [log_logging |-> FALSE, interval |-> Some(1)]
builtin_cluster_replica_config(bootstrap_args) ==
    [size |-> bootstrap_args.builtin_cluster_replica_size, logging |-> default_logging_config]
BootstrapArgs == [builtin_cluster_replica_size |-> "1"]

\* The loop of add_new_builtin_clusters_migration over the builtin clusters
\* still to visit; cluster_names was read before the loop, and `?` returns at
\* the first error with what was written so far.
RECURSIVE add_new_builtin_clusters_loop(_, _, _, _)
add_new_builtin_clusters_loop(t, cluster_names, builtin_clusters, issued) ==
    IF builtin_clusters = <<>> THEN Res(t, "Ok", None, issued)
    ELSE LET builtin_cluster == Head(builtin_clusters)
         IN  IF builtin_cluster.name \in cluster_names
             THEN add_new_builtin_clusters_loop(t, cluster_names, Tail(builtin_clusters), issued)
             ELSE LET a == get_and_increment_id(t, SYSTEM_CLUSTER_ID_ALLOC_KEY)
                      i == insert_system_cluster(a.txn, System(Unwrap(a.ret)),
                                                 builtin_cluster.name, <<>>,
                                                 builtin_cluster.privileges, "Unmanaged")
                  IN  IF a.status /= "Ok" THEN Res(a.txn, a.status, None, issued)
                      ELSE IF i.status /= "Ok"
                      THEN Res(i.txn, i.status, i.ret, issued \o a.issued)
                      ELSE add_new_builtin_clusters_loop(i.txn, cluster_names,
                                                         Tail(builtin_clusters),
                                                         issued \o a.issued)

\* A migration that does not look at the live cluster names.
add_new_builtin_clusters_migration_no_diff(txn_) ==
    add_new_builtin_clusters_loop(txn_, {}, BUILTIN_CLUSTERS, <<>>)

add_new_builtin_clusters_migration(txn_) ==
    LET items == TT_items(txn_.clusters)
        cluster_names == {items[k].name : k \in DOMAIN items}
    IN  add_new_builtin_clusters_loop(txn_, cluster_names, BUILTIN_CLUSTERS, <<>>)

\* The loop of add_new_builtin_cluster_replicas_migration; cluster_lookup
\* (name -> id) and replicas (cluster id -> replica names) were read before
\* the loop.
RECURSIVE add_new_builtin_cluster_replicas_loop(_, _, _, _, _, _)
add_new_builtin_cluster_replicas_loop(t, bootstrap_args, cluster_lookup, replicas, builtin_replicas, issued) ==
    IF builtin_replicas = <<>> THEN Res(t, "Ok", None, issued)
    ELSE LET builtin_replica == Head(builtin_replicas)
         IN  IF builtin_replica.cluster_name \notin DOMAIN cluster_lookup
             THEN Res(t, "panic", None, issued)
             ELSE
             LET cluster_id == cluster_lookup[builtin_replica.cluster_name]
                 present == /\ cluster_id \in DOMAIN replicas
                            /\ builtin_replica.name \in replicas[cluster_id]
                 a == get_and_increment_id(t, SYSTEM_REPLICA_ID_ALLOC_KEY)
                 i == insert_cluster_replica(a.txn, cluster_id, System(Unwrap(a.ret)),
                                             builtin_replica.name,
                                             builtin_cluster_replica_config(bootstrap_args),
                                             MZ_SYSTEM_ROLE_ID)
             IN  IF present
                 THEN add_new_builtin_cluster_replicas_loop(t, bootstrap_args, cluster_lookup,
                                                            replicas, Tail(builtin_replicas),
                                                            issued)
                 ELSE IF a.status /= "Ok" THEN Res(a.txn, a.status, None, issued)
                 ELSE IF i.status /= "Ok"
                 THEN Res(i.txn, i.status, i.ret, issued \o a.issued)
                 ELSE add_new_builtin_cluster_replicas_loop(i.txn, bootstrap_args,
                                                            cluster_lookup, replicas,
                                                            Tail(builtin_replicas),
                                                            issued \o a.issued)

\* cluster_lookup of the migration: live cluster name -> id.
cluster_lookup_of(txn_) ==
    LET items == TT_items(txn_.clusters)
    IN  [n \in {items[k].name : k \in DOMAIN items} |->
            (CHOOSE k \in DOMAIN items : items[k].name = n).id]

\* A migration that does not look at the live replica names.
add_new_builtin_cluster_replicas_migration_no_diff(txn_, bootstrap_args) ==
    add_new_builtin_cluster_replicas_loop(txn_, bootstrap_args, cluster_lookup_of(txn_),
                                          EmptyMap, BUILTIN_CLUSTER_REPLICAS, <<>>)

add_new_builtin_cluster_replicas_migration(txn_, bootstrap_args) ==
    LET items == TT_items(txn_.cluster_replicas)
        replicas == [c \in {items[k].cluster_id : k \in DOMAIN items} |->
                        {items[k].name : k \in {x \in DOMAIN items : items[x].cluster_id = c}}]
    IN  add_new_builtin_cluster_replicas_loop(txn_, bootstrap_args, cluster_lookup_of(txn_),
                                              replicas, BUILTIN_CLUSTER_REPLICAS, <<>>)

TransactionBatch_items_from_schemas(t) ==
    [databases |-> TT_pending(t.databases),
     schemas |-> TT_pending(t.schemas),
     items |-> TT_pending(t.schemas),
     comments |-> TT_pending(t.comments),
     roles |-> TT_pending(t.roles),
     clusters |-> TT_pending(t.clusters),
     cluster_replicas |-> TT_pending(t.cluster_replicas),
     introspection_sources |-> TT_pending(t.introspection_sources),
     id_allocator |-> TT_pending(t.id_allocator),
     configs |-> TT_pending(t.configs),
     settings |-> TT_pending(t.settings),
     timestamps |-> TT_pending(t.timestamps),
     system_gid_mapping |-> TT_pending(t.system_gid_mapping),
     system_configurations |-> TT_pending(t.system_configurations),
     default_privileges |-> TT_pending(t.default_privileges),
     system_privileges |-> TT_pending(t.system_privileges),
     audit_log_updates |-> t.audit_log_updates,
     storage_usage_updates |-> t.storage_usage_updates]

\* Variant of the batch that leaves the two event logs behind.
TransactionBatch_without_events(t) ==
    [databases |-> TT_pending(t.databases),
     schemas |-> TT_pending(t.schemas),
     items |-> TT_pending(t.items),
     comments |-> TT_pending(t.comments),
     roles |-> TT_pending(t.roles),
     clusters |-> TT_pending(t.clusters),
     cluster_replicas |-> TT_pending(t.cluster_replicas),
     introspection_sources |-> TT_pending(t.introspection_sources),
     id_allocator |-> TT_pending(t.id_allocator),
     configs |-> TT_pending(t.configs),
     settings |-> TT_pending(t.settings),
     timestamps |-> TT_pending(t.timestamps),
     system_gid_mapping |-> TT_pending(t.system_gid_mapping),
     system_configurations |-> TT_pending(t.system_configurations),
     default_privileges |-> TT_pending(t.default_privileges),
     system_privileges |-> TT_pending(t.system_privileges),
     audit_log_updates |-> <<>>,
     storage_usage_updates |-> <<>>]

\* TransactionBatch: every table's pending() and the two event logs.
TransactionBatch(t) ==
    [databases |-> TT_pending(t.databases),
     schemas |-> TT_pending(t.schemas),
     items |-> TT_pending(t.items),
     comments |-> TT_pending(t.comments),
     roles |-> TT_pending(t.roles),
     clusters |-> TT_pending(t.clusters),
     cluster_replicas |-> TT_pending(t.cluster_replicas),
     introspection_sources |-> TT_pending(t.introspection_sources),
     id_allocator |-> TT_pending(t.id_allocator),
     configs |-> TT_pending(t.configs),
     settings |-> TT_pending(t.settings),
     timestamps |-> TT_pending(t.timestamps),
     system_gid_mapping |-> TT_pending(t.system_gid_mapping),
     system_configurations |-> TT_pending(t.system_configurations),
     default_privileges |-> TT_pending(t.default_privileges),
     system_privileges |-> TT_pending(t.system_privileges),
     audit_log_updates |-> t.audit_log_updates,
     storage_usage_updates |-> t.storage_usage_updates]

\* A table of the durable catalog after the rows of a batch: a row with diff
\* -1 retracts its (key, value), a row with diff +1 adds it.
RECURSIVE ApplyRows(_, _)
ApplyRows(m, rows) ==
    IF rows = <<>> THEN m
    ELSE LET k == Head(rows)[1]
             v == Head(rows)[2]
             diff == Head(rows)[3]
         IN  IF diff = 1 THEN ApplyRows(MapPut(m, k, v), Tail(rows))
             ELSE ApplyRows([x \in {y \in DOMAIN m : ~(y = k /\ m[y] = v)} |-> m[x]],
                            Tail(rows))

\* DurableCatalogState::commit_transaction, when it applies the batch: all of
\* it at once.
commit_transaction(durable, batch) ==
    [databases |-> ApplyRows(durable.databases, batch.databases),
     schemas |-> ApplyRows(durable.schemas, batch.schemas),
     items |-> ApplyRows(durable.items, batch.items),
     comments |-> ApplyRows(durable.comments, batch.comments),
     roles |-> ApplyRows(durable.roles, batch.roles),
     clusters |-> ApplyRows(durable.clusters, batch.clusters),
     cluster_replicas |-> ApplyRows(durable.cluster_replicas, batch.cluster_replicas),
     introspection_sources |->
        ApplyRows(durable.introspection_sources, batch.introspection_sources),
     id_allocator |-> ApplyRows(durable.id_allocator, batch.id_allocator),
     configs |-> ApplyRows(durable.configs, batch.configs),
     settings |-> ApplyRows(durable.settings, batch.settings),
     timestamps |-> ApplyRows(durable.timestamps, batch.timestamps),
     system_object_mappings |->
        ApplyRows(durable.system_object_mappings, batch.system_gid_mapping),
     system_configurations |->
        ApplyRows(durable.system_configurations, batch.system_configurations),
     default_privileges |-> ApplyRows(durable.default_privileges, batch.default_privileges),
     system_privileges |-> ApplyRows(durable.system_privileges, batch.system_privileges),
     audit_log |-> durable.audit_log \o batch.audit_log_updates,
     storage_usage |-> durable.storage_usage \o batch.storage_usage_updates]

\* load_snapshot(): the tables of the durable catalog.
load_snapshot(durable) == [f \in (DOMAIN durable) \ {"audit_log", "storage_usage"} |-> durable[f]]

\* ------------------------------------------------------------------- state

VARIABLES
    txn,              \* the Transaction: its tables and event logs
    state,            \* "open", "committed", "dropped" or "aborted" (it panicked)
    durable_catalog,  \* the durable catalog's tables and event logs
    result,           \* what the last call returned: [op, status, ret]
    txn_batch,        \* the batch commit handed to commit_transaction, if it ran
    ops,              \* operations performed on txn
    txns,             \* transactions opened so far
    outcomes,         \* how each earlier transaction ended: "Ok", "CommitError", "dropped"
    id_log            \* per allocator name, the ids returned so far, in order

vars == <<txn, state, durable_catalog, result, txn_batch, ops, txns, outcomes, id_log>>

Init ==
    /\ durable_catalog = BaseSnapshot @@ [audit_log |-> <<>>, storage_usage |-> <<>>]
    /\ txn = Transaction_new(BaseSnapshot)
    /\ state = "open"
    /\ result = [op |-> "new", status |-> "Ok", ret |-> None]
    /\ txn_batch = None
    /\ ops = 0
    /\ txns = 1
    /\ outcomes = <<>>
    /\ id_log = [n \in AllocNames |-> <<>>]

RECURSIVE LogIssued(_, _)
LogIssued(log, issued) ==
    IF issued = <<>> THEN log
    ELSE LogIssued([log EXCEPT ![Head(issued)[1]] = Append(@, Head(issued)[2])], Tail(issued))

\* A method call that writes the transaction's changes through to the
\* durable catalog.
Step_writes_through(op, r) ==
    /\ state = "open"
    /\ ops < MaxOps
    /\ txn' = r.txn
    /\ state' = IF r.status = "panic" THEN "aborted" ELSE "open"
    /\ result' = [op |-> op, status |-> r.status, ret |-> r.ret]
    /\ ops' = ops + 1
    /\ id_log' = LogIssued(id_log, r.issued)
    /\ durable_catalog' = commit_transaction(durable_catalog, TransactionBatch(r.txn))
    /\ UNCHANGED <<txn_batch, txns, outcomes>>

\* One call of a method on the open transaction; r is what the method leaves.
Step(op, r) ==
    /\ state = "open"
    /\ ops < MaxOps
    /\ txn' = r.txn
    /\ state' = IF r.status = "panic" THEN "aborted" ELSE "open"
    /\ result' = [op |-> op, status |-> r.status, ret |-> r.ret]
    /\ ops' = ops + 1
    /\ id_log' = LogIssued(id_log, r.issued)
    /\ UNCHANGED <<durable_catalog, txn_batch, txns, outcomes>>

\* ------------------------------------------------------------------ actions

Database(id, name, owner_id) == [id |-> id, name |-> name, owner_id |-> owner_id, privileges |-> <<>>]
Schema(id, database_id, name) == [id |-> id, database_id |-> database_id, name |-> name, owner_id |-> MZ_SYSTEM_ROLE_ID, privileges |-> <<>>]
Role(id, name) == [id |-> id, name |-> name, attributes |-> "attrs", membership |-> "member", vars |-> "vars"]
Cluster(id, name, owner_id) == [id |-> id, name |-> name, linked_object_id |-> None, owner_id |-> owner_id, privileges |-> <<>>, config |-> "Unmanaged"]
ClusterReplica(id, cluster_id, name) == [id |-> id, cluster_id |-> cluster_id, name |-> name, config |-> "cfg", owner_id |-> MZ_SYSTEM_ROLE_ID]
Item(id, schema_id, name, create_sql) == [id |-> id, schema_id |-> schema_id, name |-> name, create_sql |-> create_sql, owner_id |-> MZ_SYSTEM_ROLE_ID, privileges |-> <<>>]

IntrospectionSourceIndexes == {<<>>, << <<"log1", System(1)>> >>, << <<"log1", User(1)>> >>}
ItemMaps == {EmptyMap} \cup
    UNION {[D -> {Item(User(1), User(1), n, "sql1") : n \in Names}] : D \in (SUBSET ItemIds) \ {{}}}

GetAndIncrementId ==
    \E key \in {DATABASE_ID_ALLOC_KEY, SYSTEM_CLUSTER_ID_ALLOC_KEY} : Step("get_and_increment_id", get_and_increment_id(txn, key))

InsertUserDatabase ==
    \E name \in Names :
        Step("insert_user_database", insert_user_database(txn, name, MZ_SYSTEM_ROLE_ID, <<>>))

InsertDatabase ==
    \E id \in DatabaseIds, name \in Names :
        Step("insert_database", insert_database(txn, id, name, MZ_SYSTEM_ROLE_ID, <<>>))

InsertUserSchema ==
    \E database_id \in DatabaseIds, name \in Names :
        Step("insert_user_schema",
             insert_user_schema(txn, database_id, name, MZ_SYSTEM_ROLE_ID, <<>>))

InsertSchema ==
    \E id \in SchemaIds, database_id \in {None, Some(User(1))}, name \in Names :
        Step("insert_schema", insert_schema(txn, id, database_id, name, MZ_SYSTEM_ROLE_ID, <<>>))

InsertUserRole ==
    \E name \in Names :
        Step("insert_user_role", insert_user_role(txn, name, "attrs", "member", "vars"))

InsertRole ==
    \E id \in RoleIds, name \in Names :
        Step("insert_role", insert_role(txn, id, name, "attrs", "member", "vars"))

InsertUserCluster ==
    \E id \in ClusterIds, name \in Names, indexes \in IntrospectionSourceIndexes :
        Step("insert_user_cluster",
             insert_user_cluster(txn, id, name, None, indexes, MZ_SYSTEM_ROLE_ID, <<>>,
                                 "Unmanaged"))

InsertClusterReplica ==
    \E cluster_id \in ClusterIds, id \in ReplicaIds, name \in Names :
        Step("insert_cluster_replica",
             insert_cluster_replica(txn, cluster_id, id, name, "cfg", MZ_SYSTEM_ROLE_ID))

IndexUpdates ==
    LET U == {"log1", "log2"} \X {System(2), User(1)}
    IN  {<<>>} \cup {<<u>> : u \in U} \cup {<<u, v>> : u \in U, v \in U}

GidMappings ==
    LET M == ClusterIds \X IndexUpdates
        M1 == {m \in M : Len(m[2]) = 1}
    IN  {<<>>} \cup {<<m>> : m \in M} \cup {<<m, n>> : m \in M1, n \in M1}

UpdateIntrospectionSourceIndexGids ==
    \E mappings \in GidMappings :
        Step("update_introspection_source_index_gids",
             update_introspection_source_index_gids(txn, mappings))

InsertItem ==
    \E id \in ItemIds, schema_id \in SchemaIds, name \in Names :
        Step("insert_item", insert_item(txn, id, schema_id, name, "sql1", MZ_SYSTEM_ROLE_ID, <<>>))

InsertTimestamp ==
    \E timeline \in Timelines : Step("insert_timestamp", insert_timestamp(txn, timeline, 1))

InsertConfig ==
    \E key \in ConfigKeys : Step("insert_config", insert_config(txn, key, 1))

InsertIdAllocator ==
    \E name \in {DATABASE_ID_ALLOC_KEY, "extra"} :
        Step("insert_id_allocator", insert_id_allocator(txn, name, 1))

RenameCluster ==
    \E id \in ClusterIds, to \in Names :
        Step("rename_cluster", rename_cluster(txn, id, "old", to))

RenameClusterReplica ==
    \E id \in ReplicaIds, to \in Names :
        Step("rename_cluster_replica", rename_cluster_replica(txn, id, "old", to))

UpdateDatabase ==
    \E id \in DatabaseIds, name \in Names, owner_id \in Owners :
        Step("update_database", update_database(txn, id, Database(id, name, owner_id)))

UpdateSchema ==
    \E id \in SchemaIds, database_id \in {None, Some(User(1))}, name \in Names :
        Step("update_schema", update_schema(txn, id, Schema(id, database_id, name)))

UpdateRole ==
    \E id \in RoleIds, name \in Names :
        Step("update_role", update_role(txn, id, Role(id, name)))

UpdateCluster ==
    \E id \in ClusterIds, name \in Names :
        Step("update_cluster", update_cluster(txn, id, Cluster(id, name, MZ_SYSTEM_ROLE_ID)))

UpdateClusterReplica ==
    \E id \in ReplicaIds, cluster_id \in ClusterIds, name \in Names :
        Step("update_cluster_replica",
             update_cluster_replica(txn, id, ClusterReplica(id, cluster_id, name)))

UpdateItem ==
    \E id \in ItemIds, schema_id \in SchemaIds, name \in Names :
        Step("update_item", update_item(txn, id, Item(id, schema_id, name, "sql1")))

UpdateItems ==
    \E items \in ItemMaps : Step("update_items", update_items(txn, items))

RemoveDatabase ==
    \E id \in DatabaseIds : Step("remove_database", remove_database(txn, id))

RemoveSchema ==
    \E id \in SchemaIds : Step("remove_schema", remove_schema(txn, Some(User(1)), id))

RemoveRole ==
    \E name \in RoleNames : Step("remove_role", remove_role(txn, name))

RemoveCluster ==
    \E id \in ClusterIds : Step("remove_cluster", remove_cluster(txn, id))

RemoveClusterReplica ==
    \E id \in ReplicaIds : Step("remove_cluster_replica", remove_cluster_replica(txn, id))

RemoveItem ==
    \E id \in ItemIds : Step("remove_item", remove_item(txn, id))

RemoveItems ==
    \E ids \in SUBSET ItemIds : Step("remove_items", remove_items(txn, ids))

UpdateSystemObjectMappings ==
    \E mappings \in SystemObjectMappings :
        Step("update_system_object_mappings", update_system_object_mappings(txn, mappings))

SetDefaultPrivilege ==
    \E grantee \in RoleIds, privileges \in AclModes :
        Step("set_default_privilege",
             set_default_privilege(txn, User(1), None, None, "table", grantee, privileges))

SetSystemPrivilege ==
    \E acl_mode \in AclModes :
        Step("set_system_privilege",
             set_system_privilege(txn, User(1), MZ_SYSTEM_ROLE_ID, acl_mode))

UpdateComment ==
    \E sub_component \in SubComponents, comment \in Comments :
        Step("update_comment", update_comment(txn, "obj1", sub_component, comment))

UpsertSystemConfig ==
    \E name \in SystemConfigNames, value \in SystemConfigValues :
        Step("upsert_system_config", upsert_system_config(txn, name, value))

RemoveSystemConfig ==
    \E name \in SystemConfigNames :
        Step("remove_system_config", remove_system_config(txn, name))

ClearSystemConfigs ==
    Step("clear_system_configs", clear_system_configs(txn))

\* Variant of commit that takes &mut self: the transaction stays open.
Commit_leaves_open ==
    /\ state = "open"
    /\ \E outcome \in {"Ok", "Err"}, applied \in BOOLEAN :
        /\ outcome = "Ok" => applied
        /\ txn_batch' = Some(TransactionBatch(txn))
        /\ durable_catalog' = IF applied
                              THEN commit_transaction(durable_catalog, TransactionBatch(txn))
                              ELSE durable_catalog
        /\ result' = [op |-> "commit", status |-> IF outcome = "Ok" THEN "Ok" ELSE "CommitError",
                      ret |-> None]
        /\ outcomes' = Append(outcomes, IF outcome = "Ok" THEN "Ok" ELSE "CommitError")
    /\ state' = "open"
    /\ UNCHANGED <<txn, ops, txns, id_log>>

\* commit(self): the batch goes to commit_transaction once; the durable
\* catalog applies all of it, or answers with an error (the batch then
\* landed whole or not at all: the caller cannot tell).  The transaction
\* is consumed either way.
Commit ==
    /\ state = "open"
    /\ \E outcome \in {"Ok", "Err"}, applied \in BOOLEAN :
        /\ outcome = "Ok" => applied
        /\ txn_batch' = Some(TransactionBatch(txn))
        /\ durable_catalog' = IF applied
                              THEN commit_transaction(durable_catalog, TransactionBatch(txn))
                              ELSE durable_catalog
        /\ result' = [op |-> "commit", status |-> IF outcome = "Ok" THEN "Ok" ELSE "CommitError",
                      ret |-> None]
        /\ outcomes' = Append(outcomes, IF outcome = "Ok" THEN "Ok" ELSE "CommitError")
    /\ state' = "committed"
    /\ UNCHANGED <<txn, ops, txns, id_log>>

\* The transaction goes out of scope without commit.
Drop ==
    /\ state = "open"
    /\ state' = "dropped"
    /\ result' = [op |-> "drop", status |-> "Ok", ret |-> None]
    /\ outcomes' = Append(outcomes, "dropped")
    /\ UNCHANGED <<txn, durable_catalog, txn_batch, ops, txns, id_log>>

\* Transaction::new on a fresh snapshot of the durable catalog, once the
\* transaction before it is gone.
NewTransaction ==
    /\ state \in {"committed", "dropped"}
    /\ txns < MaxTxns
    /\ txn' = Transaction_new(load_snapshot(durable_catalog))
    /\ state' = "open"
    /\ result' = [op |-> "new", status |-> "Ok", ret |-> None]
    /\ txn_batch' = None
    /\ ops' = 0
    /\ txns' = txns + 1
    /\ UNCHANGED <<durable_catalog, outcomes, id_log>>

InsertAuditLogEvent ==
    \E event \in AuditEvents :
        Step("insert_audit_log_event", insert_audit_log_event(txn, event))

InsertStorageUsageEvent ==
    \E metric \in StorageUsageMetrics :
        Step("insert_storage_usage_event", insert_storage_usage_event(txn, metric))

AddNewBuiltinClustersMigration ==
    Step("add_new_builtin_clusters_migration", add_new_builtin_clusters_migration(txn))

AddNewBuiltinClusterReplicasMigration ==
    Step("add_new_builtin_cluster_replicas_migration",
         add_new_builtin_cluster_replicas_migration(txn, BootstrapArgs))

\* One open transaction and every insert, rename, update and remove on it.
Next ==
    \/ GetAndIncrementId
    \/ InsertUserDatabase \/ InsertDatabase \/ InsertUserSchema \/ InsertSchema
    \/ InsertUserRole \/ InsertRole \/ InsertUserCluster \/ InsertClusterReplica
    \/ InsertItem \/ InsertTimestamp \/ InsertConfig \/ InsertIdAllocator
    \/ RenameCluster \/ RenameClusterReplica
    \/ UpdateDatabase \/ UpdateSchema \/ UpdateRole \/ UpdateCluster
    \/ UpdateClusterReplica \/ UpdateItem \/ UpdateItems
    \/ RemoveDatabase \/ RemoveSchema \/ RemoveRole \/ RemoveCluster
    \/ RemoveClusterReplica \/ RemoveItem \/ RemoveItems

Spec == Init /\ [][Next]_vars

\* One transaction on the databases, clusters and items, then its commit.
NextCommit ==
    \/ GetAndIncrementId
    \/ InsertUserDatabase \/ UpdateDatabase \/ RemoveDatabase
    \/ InsertUserCluster \/ RenameCluster \/ RemoveCluster
    \/ InsertItem \/ UpdateItem \/ RemoveItem \/ RemoveItems
    \/ Commit

SpecCommit == Init /\ [][NextCommit]_vars

\* One open transaction and the operations on the items table.
NextItems ==
    \/ InsertItem \/ UpdateItem \/ UpdateItems
    \/ RemoveItem \/ RemoveItems

SpecItems == Init /\ [][NextItems]_vars

\* One open transaction that rewrites the system object mappings, as the
\* builtin migration at bootstrap does, next to id allocations.
NextMappings ==
    \/ UpdateSystemObjectMappings
    \/ GetAndIncrementId

SpecMappings == Init /\ [][NextMappings]_vars

\* One transaction of privilege, comment and system-configuration writes,
\* then its commit.
NextSetters ==
    \/ SetDefaultPrivilege \/ SetSystemPrivilege \/ UpdateComment
    \/ UpsertSystemConfig \/ RemoveSystemConfig \/ ClearSystemConfigs
    \/ Commit

SpecSetters == Init /\ [][NextSetters]_vars

\* One open transaction that creates schemas, items and cluster replicas
\* under the parents of its choice.
NextScopes ==
    \/ InsertUserSchema \/ InsertItem \/ InsertClusterReplica

SpecScopes == Init /\ [][NextScopes]_vars

\* One transaction that removes, renames and creates databases, roles,
\* clusters and items, then its commit.
NextReuse ==
    \/ InsertUserDatabase \/ UpdateDatabase \/ RemoveDatabase
    \/ InsertUserRole \/ RemoveRole
    \/ InsertUserCluster \/ RenameCluster \/ RemoveCluster
    \/ InsertItem \/ UpdateItem \/ RemoveItem
    \/ Commit

SpecReuse == Init /\ [][NextReuse]_vars

\* One open transaction and the operations that read or write the id
\* allocators.
NextAlloc ==
    \/ GetAndIncrementId
    \/ InsertUserDatabase \/ InsertUserSchema \/ InsertUserRole
    \/ InsertIdAllocator

SpecAlloc == Init /\ [][NextAlloc]_vars

\* One open transaction and the operations on clusters and their replicas.
NextClusters ==
    \/ InsertUserCluster \/ InsertClusterReplica
    \/ RenameCluster \/ RenameClusterReplica
    \/ UpdateCluster \/ UpdateClusterReplica
    \/ RemoveCluster \/ RemoveClusterReplica

SpecClusters == Init /\ [][NextClusters]_vars

\* The builtin migrations, alone or after id allocations, in transactions
\* one after another.
NextMigrations ==
    \/ AddNewBuiltinClustersMigration \/ AddNewBuiltinClusterReplicasMigration
    \/ GetAndIncrementId
    \/ Commit \/ NewTransaction

SpecMigrations == Init /\ [][NextMigrations]_vars

\* One transaction from its creation to its end: operations of every kind
\* (insert, update, rename, remove, id allocation, migration, events), then
\* commit or drop.
NextLife ==
    \/ InsertUserDatabase \/ UpdateDatabase \/ RenameCluster \/ RemoveItem
    \/ GetAndIncrementId \/ AddNewBuiltinClustersMigration
    \/ InsertAuditLogEvent \/ InsertStorageUsageEvent
    \/ Commit \/ Drop

SpecLife == Init /\ [][NextLife]_vars

\* Transactions one after another on the same durable catalog, each
\* allocating ids, then committed or dropped.
NextIds ==
    \/ GetAndIncrementId
    \/ Commit \/ Drop \/ NewTransaction

SpecIds == Init /\ [][NextIds]_vars

\* Clusters created and removed and the ids of their introspection source
\* indexes rewritten.
NextIntrospection ==
    \/ InsertUserCluster
    \/ UpdateIntrospectionSourceIndexGids
    \/ RemoveCluster

SpecIntrospection == Init /\ [][NextIntrospection]_vars

\* Databases, schemas and items inserted and removed.
NextRemovals ==
    \/ InsertDatabase \/ InsertSchema \/ InsertItem
    \/ RemoveDatabase \/ RemoveSchema \/ RemoveItem

SpecRemovals == Init /\ [][NextRemovals]_vars

\* ---------------------------------------------------- reading a transaction

Tables ==
    {"databases", "schemas", "items", "comments", "roles", "clusters", "cluster_replicas",
     "introspection_sources", "id_allocator", "configs", "settings", "timestamps",
     "system_gid_mapping", "system_configurations", "default_privileges",
     "system_privileges"}

\* The live contents of every table, and the event logs.
Live(t) ==
    [f \in Tables \cup {"audit_log_updates", "storage_usage_updates"} |->
        IF f \in Tables THEN TT_items(t[f]) ELSE t[f]]

\* The rows of a batch table that carry key k, in order.
RowsFor(rows, k) == SelectSeq(rows, LAMBDA row : row[1] = k)

\* A map as its set of (key, value) pairs; the (key, value) pairs of the rows
\* of one sign.
Pairs(m) == {<<k, m[k]>> : k \in DOMAIN m}
RowPairs(rows, diff) == {<<rows[i][1], rows[i][2]>> : i \in {j \in 1..Len(rows) : rows[j][3] = diff}}

Consecutive(ids) == \A i \in 1..(Len(ids) - 1) : ids[i + 1] = ids[i] + 1

ConflictErrors ==
    {"DatabaseAlreadyExists", "SchemaAlreadyExists", "RoleAlreadyExists",
     "ClusterAlreadyExists", "DuplicateReplica", "ItemAlreadyExists",
     "TimelineAlreadyExists", "ConfigAlreadyExists", "IdAllocatorAlreadyExists"}

\* ------------------------------------------------------------------ claims

\* C1: in every reachable state of a transaction opened on a conflict-free
\* snapshot, no two distinct live rows share a database name, a (database_id,
\* name) among schemas, a (schema_id, name) among items, a role name, a
\* cluster name, or a (cluster_id, name) among cluster replicas.
C1_ScopedUniqueness ==
    LET d == TT_items(txn.databases)
        s == TT_items(txn.schemas)
        i == TT_items(txn.items)
        r == TT_items(txn.roles)
        c == TT_items(txn.clusters)
        p == TT_items(txn.cluster_replicas)
    IN  /\ \A x, y \in DOMAIN d : x /= y => d[x].name /= d[y].name
        /\ \A x, y \in DOMAIN s :
              x /= y => <<s[x].database_id, s[x].name>> /= <<s[y].database_id, s[y].name>>
        /\ \A x, y \in DOMAIN i :
              x /= y => <<i[x].schema_id, i[x].name>> /= <<i[y].schema_id, i[y].name>>
        /\ \A x, y \in DOMAIN r : x /= y => r[x].name /= r[y].name
        /\ \A x, y \in DOMAIN c : x /= y => c[x].name /= c[y].name
        /\ \A x, y \in DOMAIN p :
              x /= y => <<p[x].cluster_id, p[x].name>> /= <<p[y].cluster_id, p[y].name>>

\* C1 witness: two clusters are live and a rename of one to the other's name
\* has just been refused.
C1_Witness ==
    /\ result.op = "rename_cluster"
    /\ result.status = "UniquenessViolation"
    /\ Cardinality(DOMAIN TT_items(txn.clusters)) = 2

\* C2: on every reachable open transaction, an insert whose key is live, or
\* whose value conflicts with a live value of its table, returns the table's
\* conflict error and leaves the table's live contents as they were.
C2_InsertConflictRejected ==
    state = "open" =>
    /\ \A id \in DatabaseIds, name \in Names :
        LET live == TT_items(txn.databases)
            r == insert_database(txn, id, name, MZ_SYSTEM_ROLE_ID, <<>>)
        IN  (DatabaseKey(id) \in DOMAIN live \/ \E k \in DOMAIN live : live[k].name = name)
            => r.status = "DatabaseAlreadyExists" /\ TT_items(r.txn.databases) = live
    /\ \A id \in SchemaIds, db \in {None, Some(User(1))}, name \in Names :
        LET live == TT_items(txn.schemas)
            r == insert_schema(txn, id, db, name, MZ_SYSTEM_ROLE_ID, <<>>)
        IN  (SchemaKey(id) \in DOMAIN live
             \/ \E k \in DOMAIN live : live[k].database_id = db /\ live[k].name = name)
            => r.status = "SchemaAlreadyExists" /\ TT_items(r.txn.schemas) = live
    /\ \A id \in RoleIds, name \in Names :
        LET live == TT_items(txn.roles)
            r == insert_role(txn, id, name, "attrs", "member", "vars")
        IN  (RoleKey(id) \in DOMAIN live \/ \E k \in DOMAIN live : live[k].name = name)
            => r.status = "RoleAlreadyExists" /\ TT_items(r.txn.roles) = live
    /\ \A id \in ClusterIds, name \in Names, indexes \in IntrospectionSourceIndexes :
        LET live == TT_items(txn.clusters)
            r == insert_cluster(txn, id, name, None, indexes, MZ_SYSTEM_ROLE_ID, <<>>, "Unmanaged")
        IN  (ClusterKey(id) \in DOMAIN live \/ \E k \in DOMAIN live : live[k].name = name)
            => r.status = "ClusterAlreadyExists" /\ TT_items(r.txn.clusters) = live
    /\ \A id \in ItemIds, schema_id \in SchemaIds, name \in Names :
        LET live == TT_items(txn.items)
            r == insert_item(txn, id, schema_id, name, "sql1", MZ_SYSTEM_ROLE_ID, <<>>)
        IN  (ItemKey(id) \in DOMAIN live
             \/ \E k \in DOMAIN live : live[k].schema_id = schema_id /\ live[k].name = name)
            => r.status = "ItemAlreadyExists" /\ TT_items(r.txn.items) = live
    /\ \A timeline \in Timelines :
        LET live == TT_items(txn.timestamps)
            r == insert_timestamp(txn, timeline, 1)
        IN  TimestampKey(timeline) \in DOMAIN live
            => r.status = "TimelineAlreadyExists" /\ TT_items(r.txn.timestamps) = live
    /\ \A key \in ConfigKeys :
        LET live == TT_items(txn.configs)
            r == insert_config(txn, key, 1)
        IN  ConfigKey(key) \in DOMAIN live
            => r.status = "ConfigAlreadyExists" /\ TT_items(r.txn.configs) = live
    /\ \A name \in AllocNames \cup {"extra"} :
        LET live == TT_items(txn.id_allocator)
            r == insert_id_allocator(txn, name, 1)
        IN  IdAllocKey(name) \in DOMAIN live
            => r.status = "IdAllocatorAlreadyExists" /\ TT_items(r.txn.id_allocator) = live

\* C2 witness: an insert_item has just been refused as ItemAlreadyExists
\* while an item inserted earlier in the transaction is live.
C2_Witness ==
    /\ result.op = "insert_item"
    /\ result.status = "ItemAlreadyExists"
    /\ Cardinality(DOMAIN TT_items(txn.items)) = 2

\* C3 (as claimed): a call of insert_user_database, insert_user_schema,
\* insert_user_role, insert_user_cluster, insert_cluster_replica, insert_item,
\* insert_timestamp, insert_config or insert_id_allocator that returns its
\* conflict error leaves the live contents of every table and the commit
\* batch as they were, and the transaction open.
C3_FailedInsertMadeNoMutation ==
    [][(/\ result'.op \in {"insert_user_database", "insert_user_schema", "insert_user_role",
                          "insert_user_cluster", "insert_cluster_replica", "insert_item",
                          "insert_timestamp", "insert_config", "insert_id_allocator"}
        /\ result'.status \in ConflictErrors)
       => (/\ Live(txn') = Live(txn)
           /\ TransactionBatch(txn') = TransactionBatch(txn)
           /\ state' = "open")]_vars

\* C4: at commit, for every table, the batch rows applied to the base
\* snapshot (each -1 row removed, each +1 row added) give exactly the live
\* contents; every -1 row is a pair of the base, every +1 row a pair live at
\* commit, and no key has two rows of the same sign.
C4_BatchIsNetDiff ==
    state = "committed" =>
    \A f \in Tables :
        LET rows == Unwrap(txn_batch)[f]
            base == txn[f].initial
            live == TT_items(txn[f])
        IN  /\ \A i \in 1..Len(rows) : rows[i][3] \in {-1, 1}
            /\ (Pairs(base) \ RowPairs(rows, -1)) \cup RowPairs(rows, 1) = Pairs(live)
            /\ RowPairs(rows, -1) \subseteq Pairs(base)
            /\ RowPairs(rows, 1) \subseteq Pairs(live)
            /\ \A i, j \in 1..Len(rows) :
                  (i /= j /\ rows[i][1] = rows[j][1]) => rows[i][3] /= rows[j][3]

\* C4 witness: a commit whose batch retracts a base database and, for the
\* same key, inserts its new value.
C4_Witness ==
    /\ state = "committed"
    /\ Len(RowsFor(Unwrap(txn_batch).databases, DatabaseKey(User(1)))) = 2

\* C5: a key that is not in the base snapshot, was inserted in the
\* transaction and is deleted in it has no row in the commit batch: at commit
\* for every table and key, and for remove_item, remove_database and
\* remove_cluster applied to any reachable open transaction where the key is
\* live by insertion.
C5_InsertThenDeleteEmitsNothing ==
    /\ state = "committed" =>
        \A f \in Tables : \A k \in DOMAIN txn[f].pending :
            (k \notin DOMAIN txn[f].initial /\ k \notin DOMAIN TT_items(txn[f]))
            => RowsFor(Unwrap(txn_batch)[f], k) = <<>>
    /\ state = "open" =>
        /\ \A id \in ItemIds :
            (ItemKey(id) \notin DOMAIN txn.items.initial
             /\ ItemKey(id) \in DOMAIN TT_items(txn.items))
            => LET r == remove_item(txn, id)
               IN  /\ r.status = "Ok"
                   /\ RowsFor(TransactionBatch(r.txn).items, ItemKey(id)) = <<>>
        /\ \A id \in DatabaseIds \cup {User(IdMax - 1)} :
            (DatabaseKey(id) \notin DOMAIN txn.databases.initial
             /\ DatabaseKey(id) \in DOMAIN TT_items(txn.databases))
            => LET r == remove_database(txn, id)
               IN  /\ r.status = "Ok"
                   /\ RowsFor(TransactionBatch(r.txn).databases, DatabaseKey(id)) = <<>>
        /\ \A id \in ClusterIds :
            (ClusterKey(id) \notin DOMAIN txn.clusters.initial
             /\ ClusterKey(id) \in DOMAIN TT_items(txn.clusters))
            => LET r == remove_cluster(txn, id)
               IN  /\ r.status = "Ok"
                   /\ RowsFor(TransactionBatch(r.txn).clusters, ClusterKey(id)) = <<>>

\* C5 witness: a commit after a cluster that is not in the base was inserted
\* and then removed (remove_cluster leaves a pending deletion only for a key
\* that was live).
C5_Witness ==
    /\ state = "committed"
    /\ ClusterKey(User(2)) \in DOMAIN txn.clusters.pending
    /\ ClusterKey(User(2)) \notin DOMAIN txn.clusters.initial
    /\ txn.clusters.pending[ClusterKey(User(2))] = None

\* C6: a key that is not in the base snapshot and is live with value V2 has
\* exactly one row in the commit batch, (K, V2, +1): at commit for every
\* table and key, and for update_item and update_database applied to any
\* reachable open transaction where the key is live by insertion.
C6_InsertThenUpdateEmitsFinalValue ==
    /\ state = "committed" =>
        \A f \in Tables : \A k \in DOMAIN TT_items(txn[f]) :
            k \notin DOMAIN txn[f].initial
            => RowsFor(Unwrap(txn_batch)[f], k) = << <<k, TT_items(txn[f])[k], 1>> >>
    /\ state = "open" =>
        /\ \A id \in ItemIds, name \in Names, sql \in {"sql1", "sql2"} :
            (ItemKey(id) \notin DOMAIN txn.items.initial
             /\ ItemKey(id) \in DOMAIN TT_items(txn.items))
            => LET v1 == TT_items(txn.items)[ItemKey(id)]
                   v2 == ItemValue(v1.schema_id, name, sql, v1.owner_id, v1.privileges)
                   r == update_item(txn, id, Item(id, v1.schema_id, name, sql))
               IN  r.status = "Ok"
                   => RowsFor(TransactionBatch(r.txn).items, ItemKey(id))
                        = << <<ItemKey(id), v2, 1>> >>
        /\ \A id \in DatabaseIds \cup {User(IdMax - 1)}, name \in Names, owner \in Owners :
            (DatabaseKey(id) \notin DOMAIN txn.databases.initial
             /\ DatabaseKey(id) \in DOMAIN TT_items(txn.databases))
            => LET r == update_database(txn, id, Database(id, name, owner))
               IN  r.status = "Ok"
                   => RowsFor(TransactionBatch(r.txn).databases, DatabaseKey(id))
                        = << <<DatabaseKey(id), DatabaseValue(name, owner, <<>>), 1>> >>

\* C6 witness: a commit after a database that is not in the base was
\* inserted (owned by mz_system) and then updated to another owner.
C6_Witness ==
    /\ state = "committed"
    /\ DatabaseKey(User(IdMax - 1)) \in DOMAIN TT_items(txn.databases)
    /\ TT_items(txn.databases)[DatabaseKey(User(IdMax - 1))].owner_id = User(1)
    /\ Len(Unwrap(txn_batch).databases) = 1

\* C7: a key that is live in the base snapshot and is live again with the
\* same value has no row in the commit batch: at commit for every table and
\* key, and, on any reachable open transaction, for an update_database to the
\* value the base has, and for an insert_database of the base value after
\* the key was deleted.
C7_NoOpEmitsNothing ==
    /\ state = "committed" =>
        \A f \in Tables : \A k \in DOMAIN txn[f].initial :
            (k \in DOMAIN TT_items(txn[f]) /\ TT_items(txn[f])[k] = txn[f].initial[k])
            => RowsFor(Unwrap(txn_batch)[f], k) = <<>>
    /\ state = "open" =>
        \A k \in DOMAIN txn.databases.initial :
            LET v == txn.databases.initial[k]
                upd == update_database(txn, k.id, Database(k.id, v.name, v.owner_id))
                ins == insert_database(txn, k.id, v.name, v.owner_id, v.privileges)
            IN  /\ (k \in DOMAIN TT_items(txn.databases) /\ upd.status = "Ok")
                   => RowsFor(TransactionBatch(upd.txn).databases, k) = <<>>
                /\ (k \notin DOMAIN TT_items(txn.databases) /\ ins.status = "Ok")
                   => RowsFor(TransactionBatch(ins.txn).databases, k) = <<>>

\* C7 witness: a commit of a transaction that changed a base cluster and
\* then gave it its base value back.
C7_Witness ==
    /\ state = "committed"
    /\ \E k \in DOMAIN txn.clusters.pending :
        /\ k \in DOMAIN txn.clusters.initial
        /\ txn.clusters.pending[k] = Some(txn.clusters.initial[k])
    /\ Unwrap(txn_batch).clusters = <<>>

\* C8 (as claimed): the ids returned for one allocator name, in the order
\* of the calls and across successive transactions on the same durable
\* catalog, each exceed the one before by exactly 1.
C8_IdsConsecutiveAcrossTransactions ==
    \A name \in DOMAIN id_log : Consecutive(id_log[name])

\* C8 (amended): when every transaction that ended before the current one
\* committed successfully, the ids returned for one allocator name, in the
\* order of the calls, each exceed the one before by exactly 1, so none is
\* returned twice.
C8_IdsConsecutiveAcrossCommittedTransactions ==
    (\A i \in 1..Len(outcomes) : outcomes[i] = "Ok")
    => \A name \in DOMAIN id_log :
          /\ Consecutive(id_log[name])
          /\ \A i, j \in 1..Len(id_log[name]) : i /= j => id_log[name][i] /= id_log[name][j]

\* C8 witness: a second transaction, opened after the first committed, has
\* issued the id that follows the one the first issued.
C8_Witness ==
    /\ txns = 2
    /\ outcomes = <<"Ok">>
    /\ ops = 1
    /\ result.op = "get_and_increment_id"
    /\ result.status = "Ok"
    /\ Len(id_log[SYSTEM_CLUSTER_ID_ALLOC_KEY]) = 2

\* C9: on every reachable open transaction, get_and_increment_id on a live
\* allocator row with next_id = v below the maximum returns v, leaves the row
\* live with next_id = v + 1 and every other row as it was, and the batch
\* then holds for that key the retraction of the base value (when the base
\* has the key) followed by the insertion of v + 1, and nothing else. The
\* batch's id_allocator rows are the table's pending().
C9_GetAndIncrementId ==
    state = "open" =>
    \A name \in AllocNames \cup {"extra"} :
        LET k == IdAllocKey(name)
            live == TT_items(txn.id_allocator)
            base == txn.id_allocator.initial
            r == get_and_increment_id(txn, name)
        IN  (k \in DOMAIN live /\ live[k].next_id < IdMax)
            => /\ r.status = "Ok"
               /\ r.ret = Some(live[k].next_id)
               /\ TT_items(r.txn.id_allocator)
                    = [x \in DOMAIN live |->
                         IF x = k THEN IdAllocValue(live[k].next_id + 1) ELSE live[x]]
               /\ \A f \in Tables \ {"id_allocator"} : r.txn[f] = txn[f]
               /\ RowsFor(TT_pending(r.txn.id_allocator), k)
                    = (IF k \in DOMAIN base THEN << <<k, base[k], -1>> >> ELSE <<>>)
                      \o << <<k, IdAllocValue(live[k].next_id + 1), 1>> >>

\* C9 witness: the second id of one allocator has just been issued in the
\* same transaction.
C9_Witness ==
    /\ result.op = "get_and_increment_id"
    /\ result.status = "Ok"
    /\ ops = 2
    /\ Len(id_log[SYSTEM_CLUSTER_ID_ALLOC_KEY]) = 2
    /\ Len(RowsFor(TransactionBatch(txn).id_allocator,
                   IdAllocKey(SYSTEM_CLUSTER_ID_ALLOC_KEY))) = 2

\* C10: on every reachable open transaction whose allocator row holds the
\* maximum id, get_and_increment_id returns IdExhaustion and no id and leaves
\* every table, base and pending entries alike, as it was (hence the live
\* contents and the batch too); so do insert_user_database,
\* insert_user_schema and insert_user_role on their allocators.
C10_IdExhaustion ==
    state = "open" =>
    LET live == TT_items(txn.id_allocator)
        exhausted(name) == /\ IdAllocKey(name) \in DOMAIN live
                           /\ live[IdAllocKey(name)].next_id = IdMax
        unchanged(r) == /\ r.status = "IdExhaustion"
                        /\ r.ret = None
                        /\ r.txn = txn
    IN  /\ \A name \in AllocNames \cup {"extra"} :
            exhausted(name) => unchanged(get_and_increment_id(txn, name))
        /\ exhausted(DATABASE_ID_ALLOC_KEY) =>
            \A name \in Names :
                unchanged(insert_user_database(txn, name, MZ_SYSTEM_ROLE_ID, <<>>))
        /\ exhausted(SCHEMA_ID_ALLOC_KEY) =>
            \A db \in DatabaseIds, name \in Names :
                unchanged(insert_user_schema(txn, db, name, MZ_SYSTEM_ROLE_ID, <<>>))
        /\ exhausted(USER_ROLE_ID_ALLOC_KEY) =>
            \A name \in RoleNames :
                unchanged(insert_user_role(txn, name, "attrs", "member", "vars"))

\* C10 witness: an insert_user_database has just been refused with
\* IdExhaustion, the allocator row holding the maximum id.
C10_Witness ==
    /\ result.op = "insert_user_database"
    /\ result.status = "IdExhaustion"
    /\ TT_items(txn.id_allocator)[IdAllocKey(DATABASE_ID_ALLOC_KEY)].next_id = IdMax

\* C11: get_and_increment_id(name) changes at most the allocator row keyed
\* by name: on every reachable open transaction and for every name, the rows
\* of all other allocator names and all other tables are as before the call;
\* and the ids issued under one name in a transaction run from the base
\* next_id upwards by 1, whatever was allocated under other names in between.
C11_AllocatorsIndependent ==
    /\ state = "open" =>
        \A name \in AllocNames \cup {"extra"} :
            LET live == TT_items(txn.id_allocator)
                r == get_and_increment_id(txn, name)
                after == TT_items(r.txn.id_allocator)
            IN  IdAllocKey(name) \in DOMAIN live
                => /\ DOMAIN after = DOMAIN live
                   /\ \A k \in DOMAIN live : k /= IdAllocKey(name) => after[k] = live[k]
                   /\ \A f \in Tables \ {"id_allocator"} : r.txn[f] = txn[f]
                   /\ r.txn.audit_log_updates = txn.audit_log_updates
                   /\ r.txn.storage_usage_updates = txn.storage_usage_updates
    /\ \A name \in DOMAIN id_log : \A i \in 1..Len(id_log[name]) :
            id_log[name][i] = BaseSnapshot.id_allocator[IdAllocKey(name)].next_id + i - 1

\* C11 witness: ids have been issued under two allocator names in one
\* transaction, the second call having just returned.
C11_Witness ==
    /\ result.op = "get_and_increment_id"
    /\ result.status = "Ok"
    /\ Len(id_log[DATABASE_ID_ALLOC_KEY]) = 1
    /\ Len(id_log[SYSTEM_CLUSTER_ID_ALLOC_KEY]) = 1

\* C12: on every reachable open transaction, remove_cluster(id) of a live
\* cluster returns Ok and leaves no live cluster row with that id, no live
\* replica of it and no live introspection-source row of it; the rows of
\* every other cluster id in the three tables, and all other tables, are as
\* before; and when the cluster's row, its k replicas and its m
\* introspection-source rows are all keys of the base snapshot, the batch
\* rows for those keys are exactly k + m + 1 retractions.
C12_RemoveClusterCascades ==
    state = "open" =>
    \A id \in ClusterIds :
        LET clusters == TT_items(txn.clusters)
            replicas == TT_items(txn.cluster_replicas)
            sources == TT_items(txn.introspection_sources)
            own_replicas == {k \in DOMAIN replicas : replicas[k].cluster_id = id}
            own_sources == {k \in DOMAIN sources : k.cluster_id = id}
            r == remove_cluster(txn, id)
            clusters2 == TT_items(r.txn.clusters)
            replicas2 == TT_items(r.txn.cluster_replicas)
            sources2 == TT_items(r.txn.introspection_sources)
            rows == SelectSeq(TT_pending(r.txn.clusters), LAMBDA row : row[1] = ClusterKey(id))
                    \o SelectSeq(TT_pending(r.txn.cluster_replicas),
                                 LAMBDA row : row[1] \in own_replicas)
                    \o SelectSeq(TT_pending(r.txn.introspection_sources),
                                 LAMBDA row : row[1] \in own_sources)
        IN  ClusterKey(id) \in DOMAIN clusters
            => /\ r.status = "Ok"
               /\ clusters2 = [k \in (DOMAIN clusters) \ {ClusterKey(id)} |-> clusters[k]]
               /\ replicas2 = [k \in (DOMAIN replicas) \ own_replicas |-> replicas[k]]
               /\ sources2 = [k \in (DOMAIN sources) \ own_sources |-> sources[k]]
               /\ \A k \in DOMAIN replicas2 : replicas2[k].cluster_id /= id
               /\ \A k \in DOMAIN sources2 : k.cluster_id /= id
               /\ \A f \in Tables \ {"clusters", "cluster_replicas", "introspection_sources"} :
                      r.txn[f] = txn[f]
               /\ (/\ ClusterKey(id) \in DOMAIN txn.clusters.initial
                   /\ own_replicas \subseteq DOMAIN txn.cluster_replicas.initial
                   /\ own_sources \subseteq DOMAIN txn.introspection_sources.initial)
                  => /\ Len(rows) = Cardinality(own_replicas) + Cardinality(own_sources) + 1
                     /\ \A i \in 1..Len(rows) : rows[i][3] = -1

\* C12 witness: the base cluster, which owns one replica and one
\* introspection-source row, has just been removed, and the batch retracts
\* the three rows.
C12_Witness ==
    /\ result.op = "remove_cluster"
    /\ result.status = "Ok"
    /\ ClusterKey(User(1)) \notin DOMAIN TT_items(txn.clusters)
    /\ Len(TT_pending(txn.clusters)) + Len(TT_pending(txn.cluster_replicas))
         + Len(TT_pending(txn.introspection_sources)) = 3
    /\ TT_items(txn.cluster_replicas) = EmptyMap
    /\ TT_items(txn.introspection_sources) = EmptyMap

\* C13: on every reachable open transaction (a fresh one, one where the
\* migration already ran, one opened on what an earlier transaction
\* committed), running add_new_builtin_clusters_migration and then running it
\* again leaves, after the second run, the live clusters, the live
\* introspection-source rows and the id allocators as the first run left
\* them, and the second run issues no id; when the first run returned Ok all
\* builtin cluster names are live and the second run returns Ok and writes
\* nothing.
C13_ClustersMigrationIdempotent ==
    state = "open" =>
    LET r1 == add_new_builtin_clusters_migration(txn)
        r2 == add_new_builtin_clusters_migration(r1.txn)
        live1 == TT_items(r1.txn.clusters)
    IN  r1.status /= "panic"
        => /\ TT_items(r2.txn.clusters) = live1
           /\ TT_items(r2.txn.introspection_sources) = TT_items(r1.txn.introspection_sources)
           /\ TT_items(r2.txn.id_allocator) = TT_items(r1.txn.id_allocator)
           /\ r2.issued = <<>>
           /\ r2.status = r1.status
           /\ r1.status = "Ok"
              => /\ r2.txn = r1.txn
                 /\ \A i \in 1..Len(BUILTIN_CLUSTERS) :
                        \E k \in DOMAIN live1 : live1[k].name = BUILTIN_CLUSTERS[i].name

\* C13 witness: in a second transaction, opened after the first committed
\* the builtin clusters, the migration has just run and inserted nothing.
C13_Witness ==
    /\ txns = 2
    /\ result.op = "add_new_builtin_clusters_migration"
    /\ result.status = "Ok"
    /\ TT_pending(txn.clusters) = <<>>
    /\ TT_pending(txn.id_allocator) = <<>>
    /\ ClusterKey(System(1)) \in DOMAIN TT_items(txn.clusters)
    /\ ClusterKey(System(2)) \in DOMAIN TT_items(txn.clusters)

\* C14: on every reachable open transaction in which every builtin replica's
\* cluster is live (also right after an allocation of a system replica id),
\* running add_new_builtin_cluster_replicas_migration and then running it
\* again leaves, after the second run, the live replicas and the id
\* allocators as the first run left them, and the second run issues no id;
\* the first run keeps every replica that was live and adds a replica only
\* where its cluster had no live replica of that name; when it returned Ok
\* the second run returns Ok and writes nothing.
C14_ReplicasMigrationIdempotent ==
    state = "open" =>
    \A t0 \in {txn, get_and_increment_id(txn, SYSTEM_REPLICA_ID_ALLOC_KEY).txn} :
        LET clusters == TT_items(t0.clusters)
            before == TT_items(t0.cluster_replicas)
            r1 == add_new_builtin_cluster_replicas_migration(t0, BootstrapArgs)
            r2 == add_new_builtin_cluster_replicas_migration(r1.txn, BootstrapArgs)
            live1 == TT_items(r1.txn.cluster_replicas)
        IN  (\A i \in 1..Len(BUILTIN_CLUSTER_REPLICAS) :
                \E k \in DOMAIN clusters :
                    clusters[k].name = BUILTIN_CLUSTER_REPLICAS[i].cluster_name)
            => /\ r1.status \in {"Ok", "IdExhaustion"}
               /\ TT_items(r2.txn.cluster_replicas) = live1
               /\ TT_items(r2.txn.id_allocator) = TT_items(r1.txn.id_allocator)
               /\ r2.issued = <<>>
               /\ r2.status = r1.status
               /\ \A k \in DOMAIN before : k \in DOMAIN live1 /\ live1[k] = before[k]
               /\ \A k \in (DOMAIN live1) \ DOMAIN before :
                    ~\E x \in DOMAIN before :
                        /\ before[x].cluster_id = live1[k].cluster_id
                        /\ before[x].name = live1[k].name
               /\ r1.status = "Ok" => r2.txn = r1.txn

\* C14 witness: in a second transaction, opened after the first committed
\* the builtin clusters and their replicas, the replica migration has just
\* run and inserted nothing.
C14_Witness ==
    /\ txns = 2
    /\ result.op = "add_new_builtin_cluster_replicas_migration"
    /\ result.status = "Ok"
    /\ TT_pending(txn.cluster_replicas) = <<>>
    /\ TT_pending(txn.id_allocator) = <<>>
    /\ ClusterReplicaKey(System(1)) \in DOMAIN TT_items(txn.cluster_replicas)
    /\ ClusterReplicaKey(System(2)) \in DOMAIN TT_items(txn.cluster_replicas)

\* C15: a domain operation that returns a typed error keeps every database
\* row that an earlier operation of the transaction inserted: the row is
\* still live with its value after the failure, the batch a commit would
\* send still carries exactly its +1 row, and the transaction is still open.
C15_FailureKeepsEarlierInserts ==
    [][(/\ state = "open"
        /\ result'.op \notin {"commit", "drop", "new"}
        /\ result'.status \notin {"Ok", "panic"})
       => /\ state' = "open"
          /\ \A k \in (DOMAIN TT_items(txn.databases)) \ (DOMAIN txn.databases.initial) :
                /\ k \in DOMAIN TT_items(txn'.databases)
                /\ TT_items(txn'.databases)[k] = TT_items(txn.databases)[k]
                /\ RowsFor(TT_pending(txn'.databases), k)
                     = << <<k, TT_items(txn.databases)[k], 1>> >>]_vars

\* C15 witness: insert_user_role has just failed with RoleAlreadyExists in a
\* transaction that had inserted a database, and the database is live.
C15_Witness ==
    /\ result.op = "insert_user_role"
    /\ result.status = "RoleAlreadyExists"
    /\ state = "open"
    /\ DatabaseKey(User(IdMax - 1)) \in DOMAIN TT_items(txn.databases)
    /\ DatabaseKey(User(IdMax - 1)) \notin DOMAIN txn.databases.initial
    /\ Len(TT_pending(txn.databases)) = 1

\* C16: a step that is not a commit leaves the durable catalog as it was,
\* and when a transaction is dropped after any operations the durable
\* catalog holds, table by table, the snapshot the transaction started from,
\* and none of its events.
C16_DurableWrittenOnlyByCommit ==
    [][/\ result'.op /= "commit" => durable_catalog' = durable_catalog
       /\ state' = "dropped"
          => /\ \A f \in Tables :
                   durable_catalog'[IF f = "system_gid_mapping" THEN "system_object_mappings"
                                    ELSE f] = txn'[f].initial
             /\ load_snapshot(durable_catalog') = BaseSnapshot
             /\ durable_catalog'.audit_log = <<>>
             /\ durable_catalog'.storage_usage = <<>>]_vars

\* C16 witness: a transaction that inserted a database and pushed an audit
\* event has been dropped.
C16_Witness ==
    /\ state = "dropped"
    /\ TT_pending(txn.databases) /= <<>>
    /\ txn.audit_log_updates /= <<>>

\* C17: every operation, commit and drop included, is performed on an open
\* transaction; commit moves it to committed and is the one outcome recorded
\* for it; from committed nothing more is done to that transaction (no
\* operation, no second commit; the store, the batch handed over and the ids
\* issued stay as they are) and the only step is building a new transaction.
C17_LifeCycle ==
    [][/\ result'.op /= "new" => state = "open"
       /\ result'.op = "commit"
          => /\ state' = "committed"
             /\ outcomes' = Append(outcomes, result'.status)
       /\ state = "committed"
          => /\ result'.op = "new"
             /\ state' = "open"
             /\ txns' = txns + 1
             /\ UNCHANGED <<durable_catalog, outcomes, id_log>>
       /\ Len(outcomes') <= txns'
       /\ state' = "open" => Len(outcomes') < txns']_vars

\* C17 witness: a second transaction has been committed after the commit of
\* the first one failed.
C17_Witness ==
    /\ txns = 2
    /\ state = "committed"
    /\ ops > 0
    /\ Len(outcomes) = 2
    /\ outcomes[1] = "CommitError"

\* C18: the step of commit hands the durable catalog one batch, the first
\* and only one of the transaction: it has the sixteen tables' pending diffs
\* and the audit-log and storage-usage insertions as its fields, the catalog
\* takes it whole or not at all, the status the catalog answers with is what
\* commit returns, and no other step hands over a batch.
C18_CommitHandsOverOneBatch ==
    [][/\ result'.op = "commit"
          => /\ txn_batch = None
             /\ txn_batch' /= None
             /\ DOMAIN txn_batch'[1] = Tables \cup {"audit_log_updates", "storage_usage_updates"}
             /\ \A f \in Tables : txn_batch'[1][f] = TT_pending(txn[f])
             /\ txn_batch'[1].audit_log_updates = txn.audit_log_updates
             /\ txn_batch'[1].storage_usage_updates = txn.storage_usage_updates
             /\ durable_catalog' \in {durable_catalog,
                                      commit_transaction(durable_catalog, txn_batch'[1])}
             /\ result'.status = "Ok"
                => durable_catalog' = commit_transaction(durable_catalog, txn_batch'[1])
             /\ result'.status \in {"Ok", "CommitError"}
             /\ outcomes' = Append(outcomes, result'.status)
       /\ result'.op /= "commit" => txn_batch' = None
       /\ state = "committed" => UNCHANGED <<txn_batch, durable_catalog, outcomes>>]_vars

\* C18 witness: a commit whose batch carried a database row, an allocator
\* row or a cluster row together with an audit event was answered with an
\* error.
C18_Witness ==
    /\ state = "committed"
    /\ result = [op |-> "commit", status |-> "CommitError", ret |-> None]
    /\ txn_batch /= None
    /\ txn_batch[1].audit_log_updates /= <<>>
    /\ \E f \in Tables : txn_batch[1][f] /= <<>>

\* What a rename of the live cluster row at key may change: the name of that
\* row, and nothing else in the transaction.
RenamedOnly(t, after, key, to) ==
    /\ \A f \in (Tables \ {"clusters"}) \cup {"audit_log_updates", "storage_usage_updates"} :
          after[f] = t[f]
    /\ after.clusters.initial = t.clusters.initial
    /\ TT_items(after.clusters) =
          [TT_items(t.clusters) EXCEPT ![key] = [@ EXCEPT !.name = to]]

\* C19 (as claimed): on every reachable open transaction and for every id
\* and new name, rename_cluster returns UnknownCluster and changes nothing
\* when no live cluster has the id, and otherwise returns Ok with that
\* row's name as the only change.
C19_RenameClusterAlwaysOk ==
    state = "open" =>
    \A id \in ClusterIds, to \in Names :
        LET key == ClusterKey(id)
            r == rename_cluster(txn, id, "old", to)
        IN  IF key \notin DOMAIN TT_items(txn.clusters)
            THEN r.status = "UnknownCluster" /\ r.txn = txn
            ELSE r.status = "Ok" /\ RenamedOnly(txn, r.txn, key, to)

\* C19 (amended): as above, except that when another live cluster already
\* has the new name the call returns the table's uniqueness error and
\* changes nothing.
C19_RenameCluster ==
    state = "open" =>
    \A id \in ClusterIds, to \in Names :
        LET key == ClusterKey(id)
            live == TT_items(txn.clusters)
            r == rename_cluster(txn, id, "old", to)
        IN  IF key \notin DOMAIN live
            THEN r.status = "UnknownCluster" /\ r.ret = Some("old") /\ r.txn = txn
            ELSE IF \E k \in DOMAIN live \ {key} : live[k].name = to
            THEN r.status \notin {"Ok", "UnknownCluster", "panic"} /\ r.txn = txn
            ELSE r.status = "Ok" /\ RenamedOnly(txn, r.txn, key, to)

\* C19 witness: a rename of a cluster of the base snapshot to a free name
\* returned Ok and the row's name now differs from its base value.
C19_Witness ==
    /\ result.op = "rename_cluster"
    /\ result.status = "Ok"
    /\ \E k \in DOMAIN txn.clusters.initial :
          /\ k \in DOMAIN TT_items(txn.clusters)
          /\ TT_items(txn.clusters)[k].name /= txn.clusters.initial[k].name

\* C20: on every reachable open transaction and for every set of ids,
\* remove_items returns Ok exactly when every id of the set is a live item,
\* and UnknownItem otherwise; in both cases no id of the set is live afterwards, every other item is live with
\* the value it had, and no other table or event log changes.
C20_RemoveItems ==
    state = "open" =>
    \A ids \in SUBSET ItemIds :
        LET before == TT_items(txn.items)
            live == {k.gid : k \in DOMAIN before}
            r == remove_items(txn, ids)
            after == TT_items(r.txn.items)
        IN  /\ r.status = "Ok" <=> ids \subseteq live
            /\ r.status \in {"Ok", "UnknownItem"}
            /\ \A id \in ids : ItemKey(id) \notin DOMAIN after
            /\ DOMAIN after = {k \in DOMAIN before : k.gid \notin ids}
            /\ \A k \in DOMAIN after : after[k] = before[k]
            /\ \A f \in (Tables \ {"items"}) \cup {"audit_log_updates", "storage_usage_updates"} :
                  r.txn[f] = txn[f]

\* C20 witness: remove_items on a set with one live and one unknown id
\* returned UnknownItem, and the live item of the base snapshot is deleted
\* in the transaction.
C20_Witness ==
    /\ result.op = "remove_items"
    /\ result.status = "UnknownItem"
    /\ \E k \in DOMAIN txn.items.initial :
          /\ k \in DOMAIN txn.items.pending
          /\ txn.items.pending[k] = None

\* C21 (as claimed): on every reachable open transaction and for every set
\* of ids, when remove_items returns UnknownItem the ids its error names are
\* exactly the ids of the set that were not live before the call, and none
\* of the ids that were found and deleted.
C21_UnknownItemNamesUnmatched ==
    state = "open" =>
    \A ids \in SUBSET ItemIds :
        LET live == {k.gid : k \in DOMAIN TT_items(txn.items)}
            r == remove_items(txn, ids)
        IN  r.status = "UnknownItem"
            => /\ r.ret = Some(ids \ live)
               /\ Unwrap(r.ret) \cap live = {}

\* C22 (as claimed): on every reachable open transaction and for every id
\* and replacement item, update_item returns UnknownItem and leaves the
\* items table as it was when the id is not live, and otherwise returns Ok
\* with the row of the id holding the new value and every other row as it
\* was.
C22_UpdateItemAlwaysOk ==
    state = "open" =>
    \A id \in ItemIds, schema_id \in SchemaIds, name \in Names :
        LET item == Item(id, schema_id, name, "sql2")
            before == TT_items(txn.items)
            r == update_item(txn, id, item)
        IN  IF ItemKey(id) \notin DOMAIN before
            THEN r.status = "UnknownItem" /\ r.txn.items = txn.items
            ELSE /\ r.status = "Ok"
                 /\ TT_items(r.txn.items) =
                       [before EXCEPT ![ItemKey(id)] = Item_into_key_value(item)[2]]

\* C22 (amended): as above when the replacement keeps the row's schema_id
\* and no other live item of that schema has its name; a replacement with
\* another schema_id ends in the assertion failure, and one whose name is
\* taken in the schema returns the table's uniqueness error; both leave the
\* items table as it was.
C22_UpdateItem ==
    state = "open" =>
    \A id \in ItemIds, schema_id \in SchemaIds, name \in Names :
        LET item == Item(id, schema_id, name, "sql2")
            key == ItemKey(id)
            before == TT_items(txn.items)
            r == update_item(txn, id, item)
        IN  IF key \notin DOMAIN before
            THEN r.status = "UnknownItem" /\ r.txn = txn
            ELSE IF schema_id /= before[key].schema_id
            THEN r.status = "panic" /\ r.txn = txn
            ELSE IF \E k \in DOMAIN before \ {key} :
                       before[k].schema_id = schema_id /\ before[k].name = name
            THEN r.status \notin {"Ok", "UnknownItem", "panic"} /\ r.txn = txn
            ELSE /\ r.status = "Ok"
                 /\ TT_items(r.txn.items) =
                       [before EXCEPT ![key] = Item_into_key_value(item)[2]]
                 /\ \A f \in (Tables \ {"items"}) \cup {"audit_log_updates", "storage_usage_updates"} :
                       r.txn[f] = txn[f]

\* C22 witness: update_item on the item of the base snapshot returned Ok
\* and the row now holds a name other than its base one, its schema_id kept.
C22_Witness ==
    /\ result.op = "update_item"
    /\ result.status = "Ok"
    /\ \E k \in DOMAIN txn.items.initial :
          /\ k \in DOMAIN TT_items(txn.items)
          /\ TT_items(txn.items)[k].name /= txn.items.initial[k].name
          /\ TT_items(txn.items)[k].schema_id = txn.items.initial[k].schema_id

\* Replacement maps for update_items whose values may name any schema.
AnySchemaItemMaps ==
    UNION {[D -> {Item(User(1), schema_id, name, "sql1") : schema_id \in SchemaIds, name \in Names}] :
              D \in SUBSET ItemIds}

\* The items live both before and after keep their schema_id.
SchemaIdsKept(before, after) ==
    \A k \in (DOMAIN TT_items(before)) \cap (DOMAIN TT_items(after)) :
        TT_items(after)[k].schema_id = TT_items(before)[k].schema_id

\* C23: on every reachable open transaction, and for every input of
\* update_item and of update_items, no live item has another schema_id after
\* the call than before it, and a call whose replacement for a live id
\* carries another schema_id than the row ends in the assertion failure
\* with the transaction as it was, not in Ok and not in a typed error.
C23_SchemaIdImmutable ==
    state = "open" =>
    /\ \A id \in ItemIds, schema_id \in SchemaIds, name \in Names :
          LET live == TT_items(txn.items)
              r == update_item(txn, id, Item(id, schema_id, name, "sql1"))
          IN  /\ SchemaIdsKept(txn.items, r.txn.items)
              /\ (ItemKey(id) \in DOMAIN live /\ live[ItemKey(id)].schema_id /= schema_id)
                 => r.status = "panic" /\ r.txn = txn
    /\ \A items \in AnySchemaItemMaps :
          LET live == TT_items(txn.items)
              r == update_items(txn, items)
          IN  /\ SchemaIdsKept(txn.items, r.txn.items)
              /\ (\E id \in DOMAIN items :
                     /\ ItemKey(id) \in DOMAIN live
                     /\ live[ItemKey(id)].schema_id /= items[id].schema_id)
                 => r.status = "panic" /\ r.txn = txn

\* C23 witness: an update_item or update_items call whose replacement
\* carried another schema_id aborted the transaction, the item rows still
\* holding their schema_id.
C23_Witness ==
    /\ state = "aborted"
    /\ result.op \in {"update_item", "update_items"}
    /\ result.status = "panic"
    /\ \A k \in DOMAIN txn.items.initial :
          k \in DOMAIN TT_items(txn.items)
          => TT_items(txn.items)[k].schema_id = txn.items.initial[k].schema_id

LastWriteWins(t, r, f, key, value) ==
    LET base == IF key \in DOMAIN t[f].initial THEN Some(t[f].initial[key]) ELSE None
    IN  /\ r.status = "Ok"
        /\ TT_get(r.txn[f], key) = value
        /\ \A k \in ((DOMAIN TT_items(t[f])) \cup (DOMAIN TT_items(r.txn[f]))) \ {key} :
              TT_get(r.txn[f], k) = TT_get(t[f], k)
        /\ \A g \in (Tables \ {f}) \cup {"audit_log_updates", "storage_usage_updates"} :
              r.txn[g] = t[g]
        /\ RowsFor(TransactionBatch(r.txn)[f], key) =
              IF base = value THEN <<>>
              ELSE (IF base /= None THEN << <<key, base[1], -1>> >> ELSE <<>>)
                   \o (IF value /= None THEN << <<key, value[1], 1>> >> ELSE <<>>)

\* C25: on every reachable open transaction (after any earlier writes of the
\* same or other keys), each of set_default_privilege, set_system_privilege,
\* update_comment, upsert_system_config and remove_system_config returns Ok
\* and leaves the key with the value of this call, the batch carrying only
\* the net change to it; clear_system_configs leaves no configuration live
\* and the batch carrying only the retractions of the base rows.
C25_SettersLastWriteWins ==
    state = "open" =>
    /\ \A grantee \in RoleIds, privileges \in AclModes :
          LastWriteWins(txn, set_default_privilege(txn, User(1), None, None, "table", grantee, privileges),
                        "default_privileges",
                        [role_id |-> User(1), database_id |-> None, schema_id |-> None,
                         object_type |-> "table", grantee |-> grantee],
                        IF privileges = None THEN None ELSE Some([privileges |-> privileges[1]]))
    /\ \A acl_mode \in AclModes :
          LastWriteWins(txn, set_system_privilege(txn, User(1), MZ_SYSTEM_ROLE_ID, acl_mode),
                        "system_privileges",
                        [grantee |-> User(1), grantor |-> MZ_SYSTEM_ROLE_ID],
                        IF acl_mode = None THEN None ELSE Some([acl_mode |-> acl_mode[1]]))
    /\ \A sub_component \in SubComponents, comment \in Comments :
          LastWriteWins(txn, update_comment(txn, "obj1", sub_component, comment),
                        "comments",
                        [object_id |-> "obj1", sub_component |-> sub_component],
                        IF comment = None THEN None ELSE Some([comment |-> comment[1]]))
    /\ \A name \in SystemConfigNames :
          /\ \A value \in SystemConfigValues :
                LastWriteWins(txn, upsert_system_config(txn, name, value),
                              "system_configurations", [name |-> name], Some([value |-> value]))
          /\ LastWriteWins(txn, remove_system_config(txn, name),
                           "system_configurations", [name |-> name], None)
    /\ LET r == clear_system_configs(txn)
           base == txn.system_configurations.initial
           rows == TransactionBatch(r.txn).system_configurations
       IN  /\ r.status = "Ok"
           /\ TT_items(r.txn.system_configurations) = EmptyMap
           /\ RowPairs(rows, -1) = Pairs(base)
           /\ Len(rows) = Cardinality(DOMAIN base)
           /\ \A g \in (Tables \ {"system_configurations"})
                        \cup {"audit_log_updates", "storage_usage_updates"} :
                 r.txn[g] = txn[g]

\* C25 witness: after two writes of the system configuration of the base
\* snapshot, the last an upsert of its base value, the transaction was
\* committed and its batch has no row in any table.
C25_Witness ==
    /\ state = "committed"
    /\ ops = 2
    /\ DOMAIN txn.system_configurations.pending = {[name |-> "c1"]}
    /\ txn.system_configurations.pending[[name |-> "c1"]] = Some([value |-> "v1"])
    /\ \A f \in Tables : Unwrap(txn_batch)[f] = <<>>
    /\ \A f \in Tables \ {"system_configurations"} : txn[f].pending = <<>>

\* C26: a step of insert_audit_log_event appends exactly one entry, with
\* diff +1, at the end of the audit-log list and leaves the storage-usage
\* list alone, and likewise insert_storage_usage_event for the storage-usage
\* list; every other step leaves both lists as they are; and commit hands
\* over both lists as they stand, entry for entry.
C26_EventLogsAppendOnly ==
    [][/\ result'.op = "insert_audit_log_event"
          => /\ \E event \in AuditEvents :
                   txn'.audit_log_updates =
                       Append(txn.audit_log_updates, <<[event |-> event], <<>>, 1>>)
             /\ txn'.storage_usage_updates = txn.storage_usage_updates
       /\ result'.op = "insert_storage_usage_event"
          => /\ \E metric \in StorageUsageMetrics :
                   txn'.storage_usage_updates =
                       Append(txn.storage_usage_updates, <<[metric |-> metric], <<>>, 1>>)
             /\ txn'.audit_log_updates = txn.audit_log_updates
       /\ result'.op \notin {"insert_audit_log_event", "insert_storage_usage_event", "new"}
          => /\ txn'.audit_log_updates = txn.audit_log_updates
             /\ txn'.storage_usage_updates = txn.storage_usage_updates
       /\ result'.op = "commit"
          => /\ txn_batch'[1].audit_log_updates = txn.audit_log_updates
             /\ txn_batch'[1].storage_usage_updates = txn.storage_usage_updates
             /\ \A i \in 1..Len(txn_batch'[1].audit_log_updates) :
                   txn_batch'[1].audit_log_updates[i][3] = 1]_vars

\* C26 witness: the same audit event was pushed twice and the committed
\* batch carries both entries.
C26_Witness ==
    /\ state = "committed"
    /\ txn_batch /= None
    /\ Len(txn_batch[1].audit_log_updates) = 2
    /\ txn_batch[1].audit_log_updates[1] = txn_batch[1].audit_log_updates[2]

\* What cluster creation owes for its arguments, taking the transaction
\* from t to r.txn: on a collision of the id or the name with a live cluster
\* ClusterAlreadyExists and nothing written; otherwise, when it returns Ok,
\* the cluster row live with its value and one introspection-source row
\* live per supplied pair, nothing else changed; and Ok whenever every
\* supplied id is a system id and no row of the pairs is live yet.
ClusterCreated(t, r, id, value, indexes) ==
    LET live == TT_items(t.clusters)
        sources == TT_items(t.introspection_sources)
        keys == {ClusterIntrospectionSourceIndexKey(id, indexes[i][1]) : i \in 1..Len(indexes)}
    IN  IF ClusterKey(id) \in DOMAIN live \/ \E k \in DOMAIN live : live[k].name = value.name
        THEN r.status = "ClusterAlreadyExists" /\ r.txn = t
        ELSE /\ r.status \in {"Ok", "panic"}
             /\ (/\ \A i \in 1..Len(indexes) : is_system(indexes[i][2])
                 /\ keys \cap DOMAIN sources = {}
                 /\ Cardinality(keys) = Len(indexes))
                => r.status = "Ok"
             /\ r.status = "Ok"
                => /\ TT_items(r.txn.clusters) = MapPut(live, ClusterKey(id), value)
                   /\ \A i \in 1..Len(indexes) :
                         TT_get(r.txn.introspection_sources,
                                ClusterIntrospectionSourceIndexKey(id, indexes[i][1]))
                            = Some(ClusterIntrospectionSourceIndexValue(indexes[i][2][2]))
                   /\ \A k \in DOMAIN sources : TT_get(r.txn.introspection_sources, k) = Some(sources[k])
                   /\ DOMAIN TT_items(r.txn.introspection_sources) = (DOMAIN sources) \cup keys
                   /\ \A f \in Tables \ {"clusters", "introspection_sources"} : r.txn[f] = t[f]

\* C27: on every reachable open transaction and for every id, name and list
\* of (builtin log, id) pairs, insert_user_cluster and insert_system_cluster
\* satisfy ClusterCreated.
C27_ClusterCreation ==
    state = "open" =>
    \A id \in ClusterIds \cup {System(1)}, name \in Names, indexes \in IntrospectionSourceIndexes :
        /\ ClusterCreated(txn,
              insert_user_cluster(txn, id, name, None, indexes, User(1), <<>>, "Unmanaged"),
              id, ClusterValue(name, None, User(1), <<>>, "Unmanaged"), indexes)
        /\ ClusterCreated(txn,
              insert_system_cluster(txn, id, name, indexes, <<>>, "Unmanaged"),
              id, ClusterValue(name, None, MZ_SYSTEM_ROLE_ID, <<>>, "Unmanaged"), indexes)

\* C27 witness: insert_user_cluster with a (log, system id) pair returned Ok
\* and the new cluster and its introspection-source row are live.
C27_Witness ==
    /\ result.op = "insert_user_cluster"
    /\ result.status = "Ok"
    /\ \E id \in ClusterIds :
          /\ ClusterKey(id) \notin DOMAIN txn.clusters.initial
          /\ ClusterKey(id) \in DOMAIN TT_items(txn.clusters)
          /\ TT_get(txn.introspection_sources, ClusterIntrospectionSourceIndexKey(id, "log1"))
                = Some(ClusterIntrospectionSourceIndexValue(1))

\* C28: on every reachable open transaction, an insert under a parent in
\* which the name is free succeeds whether or not the name is live under
\* another parent: insert_user_schema(B, n) when no live schema of database
\* B is named n (and the allocator can issue an id), insert_item of a fresh
\* id when no live item of the schema is named n, insert_cluster_replica of
\* a fresh id when no live replica of the cluster is named n; the new row is
\* then live under an id that was not live before.
C28_UniquenessScopedByParent ==
    state = "open" =>
    /\ \A database_id \in DatabaseIds, name \in Names :
          LET live == TT_items(txn.schemas)
              a == get_and_increment_id(txn, SCHEMA_ID_ALLOC_KEY)
              r == insert_user_schema(txn, database_id, name, MZ_SYSTEM_ROLE_ID, <<>>)
          IN  (/\ ~\E k \in DOMAIN live :
                      live[k].database_id = Some(database_id) /\ live[k].name = name
               /\ a.status = "Ok"
               /\ SchemaKey(User(a.ret[1])) \notin DOMAIN live)
              => /\ r.status = "Ok"
                 /\ r.ret = Some(User(a.ret[1]))
                 /\ TT_items(r.txn.schemas) =
                       MapPut(live, SchemaKey(User(a.ret[1])),
                              SchemaValue(Some(database_id), name, MZ_SYSTEM_ROLE_ID, <<>>))
    /\ \A id \in ItemIds, schema_id \in SchemaIds, name \in Names :
          LET live == TT_items(txn.items)
              r == insert_item(txn, id, schema_id, name, "sql1", MZ_SYSTEM_ROLE_ID, <<>>)
          IN  (/\ ItemKey(id) \notin DOMAIN live
               /\ ~\E k \in DOMAIN live : live[k].schema_id = schema_id /\ live[k].name = name)
              => /\ r.status = "Ok"
                 /\ TT_items(r.txn.items) =
                       MapPut(live, ItemKey(id),
                              ItemValue(schema_id, name, "sql1", MZ_SYSTEM_ROLE_ID, <<>>))
    /\ \A cluster_id \in ClusterIds, id \in ReplicaIds, name \in Names :
          LET live == TT_items(txn.cluster_replicas)
              r == insert_cluster_replica(txn, cluster_id, id, name, "cfg", MZ_SYSTEM_ROLE_ID)
          IN  (/\ ClusterReplicaKey(id) \notin DOMAIN live
               /\ ~\E k \in DOMAIN live : live[k].cluster_id = cluster_id /\ live[k].name = name)
              => /\ r.status = "Ok"
                 /\ TT_items(r.txn.cluster_replicas) =
                       MapPut(live, ClusterReplicaKey(id),
                              ClusterReplicaValue(cluster_id, name, "cfg", MZ_SYSTEM_ROLE_ID))

\* C28 witness: insert_user_schema returned Ok and two live schemas of
\* different databases now share a name, next to two live items of different
\* schemas or two live replicas of different clusters that share a name.
C28_Witness ==
    /\ result.op = "insert_user_schema"
    /\ result.status = "Ok"
    /\ \E j, k \in DOMAIN TT_items(txn.schemas) :
          /\ j /= k
          /\ TT_items(txn.schemas)[j].name = TT_items(txn.schemas)[k].name
          /\ TT_items(txn.schemas)[j].database_id /= TT_items(txn.schemas)[k].database_id
          /\ result.ret = Some(k.id)
    /\ \/ \E j, k \in DOMAIN TT_items(txn.items) :
             /\ j /= k
             /\ TT_items(txn.items)[j].name = TT_items(txn.items)[k].name
             /\ TT_items(txn.items)[j].schema_id /= TT_items(txn.items)[k].schema_id
       \/ \E j, k \in DOMAIN TT_items(txn.cluster_replicas) :
             /\ j /= k
             /\ TT_items(txn.cluster_replicas)[j].name = TT_items(txn.cluster_replicas)[k].name
             /\ TT_items(txn.cluster_replicas)[j].cluster_id
                   /= TT_items(txn.cluster_replicas)[k].cluster_id

\* An insert of value under the fresh key, taking the transaction from t to
\* r.txn, succeeded, and the batch a commit would hand over has the insertion
\* of the new row and, for every row of the base snapshot in holders (the
\* base rows that held the name in the scope), its retraction.
NameReused(t, r, f, key, value, holders) ==
    /\ r.status = "Ok"
    /\ TT_get(r.txn[f], key) = Some(value)
    /\ RowsFor(TransactionBatch(r.txn)[f], key) = << <<key, value, 1>> >>
    /\ \A k \in holders :
          /\ RowsFor(TransactionBatch(r.txn)[f], k) /= <<>>
          /\ RowsFor(TransactionBatch(r.txn)[f], k)[1] = <<k, t[f].initial[k], -1>>

\* C29: on every reachable open transaction (among them the ones where the
\* base row holding a name was removed, renamed or updated to another name),
\* an insert of a key that is neither live nor in the base snapshot, with a
\* name that no live row of the scope holds, returns Ok, and the batch then
\* carries the insertion of the new row and the retraction of every base row
\* that held the name; for databases, roles, clusters and items.
C29_UniquenessAgainstLiveRowsOnly ==
    state = "open" =>
    /\ \A name \in Names :
          LET live == TT_items(txn.databases)
              a == get_and_increment_id(txn, DATABASE_ID_ALLOC_KEY)
              key == DatabaseKey(User(a.ret[1]))
          IN  (/\ a.status = "Ok"
               /\ key \notin (DOMAIN live) \cup (DOMAIN txn.databases.initial)
               /\ ~\E k \in DOMAIN live : live[k].name = name)
              => NameReused(txn, insert_user_database(txn, name, User(1), <<>>), "databases",
                            key, DatabaseValue(name, User(1), <<>>),
                            {k \in DOMAIN txn.databases.initial :
                                txn.databases.initial[k].name = name})
    /\ \A name \in Names :
          LET live == TT_items(txn.roles)
              a == get_and_increment_id(txn, USER_ROLE_ID_ALLOC_KEY)
              key == RoleKey(User(a.ret[1]))
          IN  (/\ a.status = "Ok"
               /\ key \notin (DOMAIN live) \cup (DOMAIN txn.roles.initial)
               /\ ~\E k \in DOMAIN live : live[k].name = name)
              => NameReused(txn, insert_user_role(txn, name, "attrs", "member", "vars"), "roles",
                            key, RoleValue(name, "attrs", "member", "vars"),
                            {k \in DOMAIN txn.roles.initial : txn.roles.initial[k].name = name})
    /\ \A id \in ClusterIds, name \in Names :
          LET live == TT_items(txn.clusters)
              key == ClusterKey(id)
          IN  (/\ key \notin (DOMAIN live) \cup (DOMAIN txn.clusters.initial)
               /\ ~\E k \in DOMAIN live : live[k].name = name)
              => NameReused(txn,
                            insert_user_cluster(txn, id, name, None, <<>>, User(1), <<>>, "Unmanaged"),
                            "clusters", key, ClusterValue(name, None, User(1), <<>>, "Unmanaged"),
                            {k \in DOMAIN txn.clusters.initial :
                                txn.clusters.initial[k].name = name})
    /\ \A id \in ItemIds, schema_id \in SchemaIds, name \in Names :
          LET live == TT_items(txn.items)
              key == ItemKey(id)
          IN  (/\ key \notin (DOMAIN live) \cup (DOMAIN txn.items.initial)
               /\ ~\E k \in DOMAIN live : live[k].schema_id = schema_id /\ live[k].name = name)
              => NameReused(txn, insert_item(txn, id, schema_id, name, "sql1", User(1), <<>>),
                            "items", key, ItemValue(schema_id, name, "sql1", User(1), <<>>),
                            {k \in DOMAIN txn.items.initial :
                                /\ txn.items.initial[k].schema_id = schema_id
                                /\ txn.items.initial[k].name = name})

\* C29 witness: the database of the base snapshot was removed, a database
\* of the same name was inserted under a new id, and the committed batch
\* carries the retraction of the one and the insertion of the other.
C29_Witness ==
    /\ state = "committed"
    /\ result.op = "commit"
    /\ \E old \in DOMAIN txn.databases.initial, new \in DOMAIN TT_items(txn.databases) :
          /\ new \notin DOMAIN txn.databases.initial
          /\ old \notin DOMAIN TT_items(txn.databases)
          /\ TT_items(txn.databases)[new].name = txn.databases.initial[old].name
          /\ RowsFor(Unwrap(txn_batch).databases, old) = << <<old, txn.databases.initial[old], -1>> >>
          /\ RowsFor(Unwrap(txn_batch).databases, new) = << <<new, TT_items(txn.databases)[new], 1>> >>

\* C30: on every reachable open transaction, remove_cluster of an id with no
\* live cluster row returns UnknownCluster naming the id and leaves the
\* clusters, cluster-replica and introspection-source tables, and every
\* other table, as they were, whether or not live replica or
\* introspection-source rows carry the id.
C30_RemoveUnknownCluster ==
    state = "open" =>
    \A id \in ClusterIds :
        LET r == remove_cluster(txn, id)
        IN  ClusterKey(id) \notin DOMAIN TT_items(txn.clusters)
            => /\ r.status = "UnknownCluster"
               /\ r.ret = Some(id)
               /\ r.txn.clusters = txn.clusters
               /\ r.txn.cluster_replicas = txn.cluster_replicas
               /\ r.txn.introspection_sources = txn.introspection_sources
               /\ r.txn = txn

\* C30 witness: remove_cluster returned UnknownCluster for an id that a live
\* replica carries, and the replica is still live.
C30_Witness ==
    /\ result.op = "remove_cluster"
    /\ result.status = "UnknownCluster"
    /\ result.ret /= None
    /\ ClusterKey(result.ret[1]) \notin DOMAIN TT_items(txn.clusters)
    /\ \E k \in DOMAIN TT_items(txn.cluster_replicas) :
          TT_items(txn.cluster_replicas)[k].cluster_id = result.ret[1]

\* C31 (as claimed): on every reachable open transaction and for every
\* cluster id, replica id and name, an insert_cluster_replica whose replica
\* id is live, or whose name a live replica of the same cluster id holds,
\* returns DuplicateReplica and leaves the transaction as it was, whether or
\* not a cluster row of that cluster id is live.
C31_DuplicateReplicaNeverAborts ==
    state = "open" =>
    \A cluster_id \in ClusterIds, id \in ReplicaIds, name \in Names :
        LET live == TT_items(txn.cluster_replicas)
            r == insert_cluster_replica(txn, cluster_id, id, name, "cfg", MZ_SYSTEM_ROLE_ID)
        IN  (\/ ClusterReplicaKey(id) \in DOMAIN live
             \/ \E k \in DOMAIN live : live[k].cluster_id = cluster_id /\ live[k].name = name)
            => /\ r.status = "DuplicateReplica"
               /\ r.txn = txn

\* Every live replica row and every live introspection-source row of t
\* carries the id of a live cluster row.
ReplicasReferToLiveClusters(t) ==
    /\ \A k \in DOMAIN TT_items(t.cluster_replicas) :
          ClusterKey(TT_items(t.cluster_replicas)[k].cluster_id) \in DOMAIN TT_items(t.clusters)
    /\ \A k \in DOMAIN TT_items(t.introspection_sources) :
          ClusterKey(k.cluster_id) \in DOMAIN TT_items(t.clusters)

\* C32 (as claimed): a step of insert_user_cluster, insert_cluster_replica,
\* rename_cluster, rename_cluster_replica, remove_cluster or
\* remove_cluster_replica taken where every live replica and
\* introspection-source row refers to a live cluster ends where that is
\* still so.
C32_ReplicaReferentialIntegrity ==
    [][(/\ result'.op \in {"insert_user_cluster", "insert_cluster_replica", "rename_cluster",
                           "rename_cluster_replica", "remove_cluster", "remove_cluster_replica"}
        /\ ReplicasReferToLiveClusters(txn))
       => ReplicasReferToLiveClusters(txn')]_vars

\* The live item rows of t with the rows of the live keys of items replaced
\* by the values of items.
ItemsReplaced(t, items) ==
    [k \in DOMAIN TT_items(t.items) |->
        IF k.gid \in DOMAIN items THEN Item_into_key_value(items[k.gid])[2]
                                  ELSE TT_items(t.items)[k]]

\* C33 (as claimed): on every reachable open transaction and for every
\* replacement map, update_items returns Ok exactly when every key of the map
\* is a live item id, and otherwise returns UnknownItem naming exactly the
\* keys that are not live, the matched rows holding their new values.
C33_UpdateItemsOkIffAllLive ==
    state = "open" =>
    \A items \in AnySchemaItemMaps :
        LET live == {k.gid : k \in DOMAIN TT_items(txn.items)}
            r == update_items(txn, items)
        IN  IF DOMAIN items \subseteq live
            THEN r.status = "Ok"
            ELSE /\ r.status = "UnknownItem"
                 /\ r.ret = Some((DOMAIN items) \ live)
                 /\ TT_items(r.txn.items) = ItemsReplaced(txn, items)

\* C33 (amended): as above when every replacement for a live id keeps the
\* row's schema_id and the replaced rows hold no name twice in one schema; a
\* replacement with another schema_id ends in the assertion failure, and
\* replaced rows that repeat a name in a schema give the table's uniqueness
\* error; both leave the transaction as it was.
C33_UpdateItems ==
    state = "open" =>
    \A items \in AnySchemaItemMaps :
        LET before == TT_items(txn.items)
            live == {k.gid : k \in DOMAIN before}
            after == ItemsReplaced(txn, items)
            r == update_items(txn, items)
        IN  IF \E k \in DOMAIN before :
                   k.gid \in DOMAIN items /\ items[k.gid].schema_id /= before[k].schema_id
            THEN r.status = "panic" /\ r.txn = txn
            ELSE IF \E k1, k2 \in DOMAIN after :
                       /\ k1 /= k2
                       /\ after[k1].schema_id = after[k2].schema_id
                       /\ after[k1].name = after[k2].name
            THEN r.status \notin {"Ok", "UnknownItem", "panic"} /\ r.txn = txn
            ELSE /\ TT_items(r.txn.items) = after
                 /\ \A f \in (Tables \ {"items"}) \cup {"audit_log_updates", "storage_usage_updates"} :
                       r.txn[f] = txn[f]
                 /\ IF DOMAIN items \subseteq live
                    THEN r.status = "Ok"
                    ELSE /\ r.status = "UnknownItem"
                         /\ r.ret = Some((DOMAIN items) \ live)

\* C33 witness: update_items returned UnknownItem for a map with a key that
\* is not live, and the item of the base snapshot holds a name other than
\* its base one.
C33_Witness ==
    /\ result.op = "update_items"
    /\ result.status = "UnknownItem"
    /\ result.ret /= Some({})
    /\ \E k \in DOMAIN txn.items.initial :
          /\ k \in DOMAIN TT_items(txn.items)
          /\ TT_items(txn.items)[k].name /= txn.items.initial[k].name

\* C34 (as claimed): on every reachable open transaction, each by-id update
\* called with an id that is not live returns the not-found error of its own
\* kind and leaves the transaction as it was: update_database
\* UnknownDatabase, update_schema UnknownSchema, update_role UnknownRole,
\* update_cluster UnknownCluster, update_cluster_replica and
\* rename_cluster_replica UnknownClusterReplica.
C34_UpdateNotFoundOwnKind ==
    state = "open" =>
    /\ \A id \in DatabaseIds, name \in Names :
          LET r == update_database(txn, id, Database(id, name, MZ_SYSTEM_ROLE_ID))
          IN  DatabaseKey(id) \notin DOMAIN TT_items(txn.databases)
              => r.status = "UnknownDatabase" /\ r.txn = txn
    /\ \A id \in SchemaIds, name \in Names :
          LET r == update_schema(txn, id, Schema(id, Some(User(1)), name))
          IN  SchemaKey(id) \notin DOMAIN TT_items(txn.schemas)
              => r.status = "UnknownSchema" /\ r.txn = txn
    /\ \A id \in ClusterIds, name \in Names :
          LET r == update_cluster(txn, id, Cluster(id, name, MZ_SYSTEM_ROLE_ID))
          IN  ClusterKey(id) \notin DOMAIN TT_items(txn.clusters)
              => r.status = "UnknownCluster" /\ r.txn = txn
    /\ \A id \in ReplicaIds, cluster_id \in ClusterIds, name \in Names :
          LET r == update_cluster_replica(txn, id, ClusterReplica(id, cluster_id, name))
              n == rename_cluster_replica(txn, id, "old", name)
          IN  ClusterReplicaKey(id) \notin DOMAIN TT_items(txn.cluster_replicas)
              => /\ r.status = "UnknownClusterReplica" /\ r.txn = txn
                 /\ n.status = "UnknownClusterReplica" /\ n.txn = txn
    /\ \A id \in RoleIds, name \in Names :
          LET r == update_role(txn, id, Role(id, name))
          IN  RoleKey(id) \notin DOMAIN TT_items(txn.roles)
              => r.status = "UnknownRole" /\ r.txn = txn

\* Some id of a sequence of <<name, GlobalId>> is not a system id.
HasNonSystemId(indexes) == \E i \in DOMAIN indexes : ~is_system(indexes[i][2])

\* The updates of mappings in the order the loops visit them, as
\* <<cluster_id, name, GlobalId>>.
RECURSIVE FlatUpdates(_)
FlatUpdates(mappings) ==
    IF mappings = <<>> THEN <<>>
    ELSE [i \in 1..Len(Head(mappings)[2]) |->
             <<Head(mappings)[1], Head(mappings)[2][i][1], Head(mappings)[2][i][2]>>]
         \o FlatUpdates(Tail(mappings))

C36_GidUpdateCreatesNoRow ==
    state = "open" =>
    \A mappings \in GidMappings :
        LET flat == FlatUpdates(mappings)
            sources == TT_items(txn.introspection_sources)
            missing == {ClusterIntrospectionSourceIndexKey(flat[i][1], flat[i][2]) :
                           i \in DOMAIN flat} \ DOMAIN sources
            r == update_introspection_source_index_gids(txn, mappings)
        IN  ((\A i \in DOMAIN flat : is_system(flat[i][3])) /\ missing /= {})
            => /\ r.status = "FailedBuiltinSchemaMigration"
               /\ missing \cap DOMAIN TT_items(r.txn.introspection_sources) = {}

\* C37: on every reachable open transaction and for every name, remove_role
\* returns UnknownRole with the live roles as they were when no live role has
\* the name, returns Ok with exactly the row of that name removed when a live
\* user role has it, and ends in the assertion failure when the live role of
\* that name is not a user role; no other table changes.
C37_RemoveRole ==
    state = "open" =>
    \A name \in RoleNames :
        LET before == TT_items(txn.roles)
            named == {k \in DOMAIN before : before[k].name = name}
            r == remove_role(txn, name)
            after == TT_items(r.txn.roles)
        IN  /\ \A f \in (Tables \ {"roles"}) \cup {"audit_log_updates", "storage_usage_updates"} :
                  r.txn[f] = txn[f]
            /\ IF named = {}
               THEN r.status = "UnknownRole" /\ r.ret = Some(name) /\ after = before
               ELSE IF \E k \in named : ~is_user(k.id)
               THEN r.status = "panic"
               ELSE /\ r.status = "Ok"
                    /\ Cardinality(named) = 1
                    /\ after = [k \in DOMAIN before \ named |-> before[k]]

\* C37 witness: remove_role returned Ok and the user role of the base
\* snapshot is gone while the system role is still live.
C37_Witness ==
    /\ result.op = "remove_role"
    /\ result.status = "Ok"
    /\ RoleKey(User(1)) \notin DOMAIN TT_items(txn.roles)
    /\ RoleKey(System(1)) \in DOMAIN TT_items(txn.roles)

\* C38: on every reachable open transaction, remove_database and
\* remove_schema leave every table but their own as it was, so the schemas of
\* a removed database and the items of a removed schema stay live and
\* unchanged; a live id gives Ok with exactly its row removed, and an id that
\* is not live gives UnknownDatabase or UnknownSchema with the table's live
\* rows and pending changes as they were.
C38_OnlyClusterRemovalCascades ==
    state = "open" =>
    /\ \A id \in DatabaseIds :
          LET before == TT_items(txn.databases)
              r == remove_database(txn, id)
          IN  /\ \A f \in (Tables \ {"databases"}) \cup {"audit_log_updates", "storage_usage_updates"} :
                    r.txn[f] = txn[f]
              /\ IF DatabaseKey(id) \in DOMAIN before
                 THEN /\ r.status = "Ok"
                      /\ TT_items(r.txn.databases) =
                            [k \in DOMAIN before \ {DatabaseKey(id)} |-> before[k]]
                 ELSE /\ r.status = "UnknownDatabase"
                      /\ TT_items(r.txn.databases) = before
                      /\ TT_pending(r.txn.databases) = TT_pending(txn.databases)
    /\ \A database_id \in {None, Some(User(1))}, schema_id \in SchemaIds :
          LET before == TT_items(txn.schemas)
              r == remove_schema(txn, database_id, schema_id)
          IN  /\ \A f \in (Tables \ {"schemas"}) \cup {"audit_log_updates", "storage_usage_updates"} :
                    r.txn[f] = txn[f]
              /\ IF SchemaKey(schema_id) \in DOMAIN before
                 THEN /\ r.status = "Ok"
                      /\ TT_items(r.txn.schemas) =
                            [k \in DOMAIN before \ {SchemaKey(schema_id)} |-> before[k]]
                 ELSE /\ r.status = "UnknownSchema"
                      /\ TT_items(r.txn.schemas) = before
                      /\ TT_pending(r.txn.schemas) = TT_pending(txn.schemas)

\* C38 witness: remove_database returned Ok for the database of the base
\* snapshot, and the schema of that database and the item of the schema are
\* still live.
C38_Witness ==
    /\ result.op = "remove_database"
    /\ result.status = "Ok"
    /\ DatabaseKey(User(1)) \notin DOMAIN TT_items(txn.databases)
    /\ \E k \in DOMAIN TT_items(txn.schemas) :
          /\ TT_items(txn.schemas)[k].database_id = Some(User(1))
          /\ \E i \in DOMAIN TT_items(txn.items) : TT_items(txn.items)[i].schema_id = k.id

====
